---- MODULE Spec2Model ----
(***************************************************************************)
(* A model of the remote-session adapter of the Slack connector:           *)
(*   pkg/connector/handleslack.go  - event translation, session lifecycle, *)
(*                                   channel reconciliation                *)
(*   pkg/connector/handlematrix.go - outbound command dispatch             *)
(* One bridged login (UserLogin) and the SlackClient built for it.         *)
(***************************************************************************)
EXTENDS Integers, Sequences, FiniteSets, TLC

(***************************************************************************)
(* Bounds of the model.                                                    *)
(***************************************************************************)
\* Events the stream delivers in one run.
MaxEvents == 2
\* Calls of Connect in one run (each successful one spawns a consumer).
MaxConnects == 2
\* Calls of LoadUserLogin after the first one (Init).
MaxLoads == 1

(***************************************************************************)
(* Values.                                                                 *)
(***************************************************************************)
Nil == "nil"
\* The key is missing from Metadata.Extra (the type assertion's ok is false).
Absent == "absent"
ValidToken == "xoxc-token"
ValidCookie == "d-cookie"

\* The identity of the login: slackid.ParseUserLoginID(login.ID).
TeamID == "T1"
UserID == "U1"
Teams == {"T1", "T2"}
Users == {"U1", "U2"}
Channels == {"C1"}

\* status.BridgeState values sent by the connector.
StateConnecting == "CONNECTING"
StateConnected == "CONNECTED"
StateUnknownError == "UNKNOWN_ERROR"
StateBadCredentials == "BAD_CREDENTIALS"

BridgeState(stateEvent, error) == [StateEvent |-> stateEvent, Error |-> error]

(***************************************************************************)
(* Identifiers (package slackid). An identifier is modelled by the list of *)
(* its "-"-separated parts.                                                *)
(***************************************************************************)
MakePortalID(team, channel) == <<team, channel>>
MakeTeamPortalID(team) == <<team>>
MakeMessageID(team, channel, ts) == <<team, channel, ts>>
MakeUserID(team, user) == <<team, user>>

\* ParsePortalID: (team, channel), the channel "" when the id has not two parts.
ParsePortalID(id) == IF Len(id) = 2 THEN <<id[1], id[2]>> ELSE <<"", "">>

\* networkid.PortalKey; the zero key IsEmpty.
EmptyPortalKey == [ID |-> <<>>]
IsEmpty(key) == key.ID = <<>>

VARIABLES
    Extra,        \* UserLogin.Metadata.Extra: [token, cookie_token]
    dbExtra,      \* the account record as last persisted by UserLogin.Save
    Client,       \* SlackClient.Client: Nil, or the token it was made with
    RTM,          \* SlackClient.RTM: Nil or "rtm"
    rtmConn,      \* the RTM connection: "new", "managed", "killed"
    disconnectCalls, \* calls of rtm.Disconnect() made
    teamPortal,   \* TeamPortal.MXID is set
    BootResp,     \* SlackClient.BootResp is set
    statuses,     \* UserLogin.BridgeState.Send, in order
    queued,       \* Bridge.QueueRemoteEvent, in order
    stream,       \* RTM.IncomingEvents: events not yet received
    arrived,      \* number of events delivered to the stream so far
    consumers,    \* the consumeEvents goroutines
    hlog,         \* the last HandleSlackEvent call completed: its event, what the
                  \* collaborators answered, what it did
    portals,      \* per channel: "none", "row" (portal row), "room" (has MXID)
    syncs,        \* the SyncChannels goroutines
    convList,     \* the account's conversation list on the server
    loopVarShared, \* the build's range loops share one variable over all
                  \* iterations (Go before 1.22) or make one per iteration
    emojiSyncs,   \* SyncEmojis goroutines started
    managers,     \* RTM.ManageConnection goroutines started
    connects,     \* Connect calls made
    loads,        \* LoadUserLogin calls made after Init
    lastConnect,  \* the last Connect call: its inputs and what it returned
    panicked,     \* a nil dereference ended the process
    mx            \* the last outbound (Matrix -> Slack) call and its result

sessVars == <<Extra, dbExtra, Client, RTM, rtmConn, disconnectCalls, teamPortal, BootResp>>
outVars == <<statuses, queued>>
streamVars == <<stream, arrived, consumers, hlog>>
syncVars == <<portals, syncs, convList, loopVarShared>>
taskVars == <<emojiSyncs, managers>>
callVars == <<connects, loads, lastConnect, panicked>>
vars == <<sessVars, outVars, streamVars, syncVars, taskVars, callVars, mx>>

(***************************************************************************)
(* Stream events. One record shape for all: kind, the channel id, the      *)
(* team and user ids the event reports, its timestamp and message subtype. *)
(***************************************************************************)
\* Chat events whose room is found through the portal lookup.
LookupKinds == {"message", "reaction_added", "reaction_removed", "user_typing",
                "channel_marked", "im_marked", "group_marked",
                "channel_left", "group_left",
                "member_joined_channel", "member_left_channel"}
\* Chat events that carry the channel descriptor inline.
DescriptorKinds == {"channel_joined", "group_joined"}
ChatKinds == LookupKinds \cup DescriptorKinds \cup {"channel_update"}
\* Ignored intentionally (handleslack.go:87-92).
IgnoredKinds == {"emoji_changed", "file_shared", "file_public", "file_private",
                 "file_created", "file_change", "file_deleted",
                 "desktop_notification", "reconnect_url", "latency_report"}

Event(kind, chan, team, user, ts) ==
    [kind |-> kind, chan |-> chan, team |-> team, user |-> user, ts |-> ts,
     subtype |-> "", reaction |-> "", itemTs |-> "", code |-> 0]

\* The events the stream delivers in the session specification.
StreamEvents ==
    {Event(k, "", "", "", "") : k \in {"connecting", "hello", "invalid_auth",
                                       "file_shared", "disconnected"}}
    \cup {[Event("rtm_error", "", "", "", "") EXCEPT !.code = 1]}
    \cup {Event("connected", "", t, u, "") : t \in Teams, u \in Users}
    \cup {Event("message", c, "", "U2", "100.1") : c \in Channels}
    \cup {Event("channel_joined", c, "", "", "") : c \in Channels}
    \cup {Event("channel_update", c, "", "", "101.1") : c \in Channels}

(***************************************************************************)
(* Event-meta builder.                                                     *)
(***************************************************************************)
\* Bridge.FindPortalReceiver: the key of the portal row with this id, the
\* empty key when there is none, an error when the database fails.
FindPortalReceiver(id, dbErr) ==
    IF dbErr THEN [key |-> EmptyPortalKey, err |-> TRUE]
    ELSE LET ch == ParsePortalID(id)[2] IN
         IF ch \in DOMAIN portals /\ portals[ch] # "none"
         THEN [key |-> [ID |-> id], err |-> FALSE]
         ELSE [key |-> EmptyPortalKey, err |-> FALSE]

\* makePortalKey: the key of a channel descriptor.
makePortalKey(channel) == [ID |-> MakePortalID(TeamID, channel.ID)]

makeEventSender(senderID) ==
    [IsFromMe |-> senderID = UserID, Sender |-> MakeUserID(TeamID, senderID)]

EmptySender == [IsFromMe |-> FALSE, Sender |-> <<>>]

\* The zero SlackEventMeta.
ZeroMeta == [Type |-> "unknown", PortalKey |-> EmptyPortalKey, Sender |-> EmptySender,
             ID |-> <<>>, Timestamp |-> "", CreatePortal |-> FALSE]

\* A pointer is modelled by a list: <<>> is nil, <<x>> points to x.
NilPtr == <<>>

\* Mutant: the room key is made up from the channel id when the lookup finds nothing.
makeEventMeta_Fabricate(channelID, channel, senderID, timestamp, dbErr) ==
    LET key == IF channel # NilPtr THEN makePortalKey(channel[1])
               ELSE [ID |-> MakePortalID(TeamID, channelID)]
        m1 == [ZeroMeta EXCEPT !.PortalKey = key]
        m2 == IF senderID # "" THEN [m1 EXCEPT !.Sender = makeEventSender(senderID)] ELSE m1
        m3 == IF timestamp # ""
              THEN [m2 EXCEPT !.ID = MakeMessageID(TeamID, channelID, timestamp),
                              !.Timestamp = timestamp]
              ELSE m2
    IN [meta |-> m3, err |-> ""]

\* makeEventMeta returns (meta, err): on an error the meta built so far.
makeEventMeta(channelID, channel, senderID, timestamp, dbErr) ==
    LET found == FindPortalReceiver(MakePortalID(TeamID, channelID), dbErr)
        key == IF channel # NilPtr THEN makePortalKey(channel[1]) ELSE found.key
        m1 == [ZeroMeta EXCEPT !.PortalKey = key]
        m2 == IF senderID # "" THEN [m1 EXCEPT !.Sender = makeEventSender(senderID)] ELSE m1
        m3 == IF timestamp # ""
              THEN [m2 EXCEPT !.ID = MakeMessageID(TeamID, channelID, timestamp),
                              !.Timestamp = timestamp]
              ELSE m2
    IN IF channel = NilPtr /\ found.err
       THEN [meta |-> m1, err |-> "failed to find portal receiver"]
       ELSE IF channel = NilPtr /\ IsEmpty(found.key)
       THEN [meta |-> m1, err |-> "unknown channel"]
       ELSE [meta |-> m3, err |-> ""]

(***************************************************************************)
(* Event translator. env holds what the collaborators answer during the    *)
(* call: dbErr (portal lookup fails), fetchErr (fetchChatInfo fails),      *)
(* isImage and emoji (GetEmoji), customEmoji (Config.CustomEmojiReactions).*)
(***************************************************************************)
Shortcode(reaction) == ":" \o reaction \o ":"

\* A reaction wrapper that takes what GetEmoji returned, whatever the
\* CustomEmojiReactions option says.
wrapReaction_IgnoreOption(meta, reaction, add, target, env) ==
    [wrapped |-> [variant |-> "SlackReaction",
                  meta |-> [meta EXCEPT !.Type = IF add THEN "reaction" ELSE "reaction_remove"],
                  Emoji |-> env.emoji,
                  EmojiID |-> reaction,
                  Meta |-> [shortcode |-> Shortcode(reaction),
                            reaction |-> IF env.isImage
                                         THEN [name |-> reaction, mxc |-> env.emoji]
                                         ELSE [name |-> reaction]],
                  TargetID |-> MakeMessageID(TeamID, target.Channel, target.Timestamp)],
     err |-> ""]

wrapReaction(meta, reaction, add, target, env) ==
    LET shortcode == Shortcode(reaction)
        emoji == IF env.isImage /\ ~env.customEmoji THEN shortcode ELSE env.emoji
        info == IF env.isImage THEN [name |-> reaction, mxc |-> env.emoji]
                ELSE [name |-> reaction]
    IN [wrapped |-> [variant |-> "SlackReaction",
                     meta |-> [meta EXCEPT !.Type = IF add THEN "reaction" ELSE "reaction_remove"],
                     Emoji |-> emoji,
                     EmojiID |-> reaction,
                     Meta |-> [shortcode |-> shortcode, reaction |-> info],
                     TargetID |-> MakeMessageID(TeamID, target.Channel, target.Timestamp)],
        err |-> ""]

wrapTyping(meta) == [variant |-> "SlackTyping", meta |-> [meta EXCEPT !.Type = "typing"]]

wrapReadReceipt(meta) ==
    [variant |-> "SlackReadReceipt", meta |-> [meta EXCEPT !.Type = "read_receipt"]]

\* A membership wrapper that reports the change for the sender twice.
wrapMemberChange_Twice(meta, sender, newMembership, prevMembership) ==
    [variant |-> "SlackChatInfoChange",
     meta |-> [meta EXCEPT !.Type = "chat_info_change"],
     Change |-> [MemberChanges |-> <<[EventSender |-> sender,
                                      Membership |-> newMembership,
                                      PrevMembership |-> prevMembership],
                                     [EventSender |-> sender,
                                      Membership |-> newMembership,
                                      PrevMembership |-> prevMembership]>>]]

wrapMemberChange(meta, sender, newMembership, prevMembership) ==
    [variant |-> "SlackChatInfoChange",
     meta |-> [meta EXCEPT !.Type = "chat_info_change"],
     Change |-> [MemberChanges |-> <<[EventSender |-> sender,
                                      Membership |-> newMembership,
                                      PrevMembership |-> prevMembership]>>]]

\* wrapEvent returns (wrapped, err); wrapped is NilPtr or <<event>>.
wrapEvent(evt, env) ==
    LET k == evt.kind
        item == [Channel |-> evt.chan, Timestamp |-> evt.itemTs]
        desc == <<[ID |-> evt.chan]>>
        m == CASE k \in {"message", "reaction_added", "reaction_removed"}
                    -> makeEventMeta(evt.chan, NilPtr, evt.user, evt.ts, env.dbErr)
               [] k \in {"user_typing", "member_joined_channel", "member_left_channel"}
                    -> makeEventMeta(evt.chan, NilPtr, evt.user, "", env.dbErr)
               [] k \in {"channel_marked", "im_marked", "group_marked",
                         "channel_left", "group_left"}
                    -> makeEventMeta(evt.chan, NilPtr, UserID, evt.ts, env.dbErr)
               [] k \in {"channel_joined", "group_joined"}
                    -> makeEventMeta(evt.chan, desc, UserID, "", env.dbErr)
               [] k = "channel_update"
                    -> makeEventMeta(evt.chan, NilPtr, "", evt.ts, env.dbErr)
               [] OTHER -> [meta |-> ZeroMeta, err |-> ""]
        meta == m.meta
        create == [meta EXCEPT !.CreatePortal = TRUE]
    IN CASE k = "message"
              -> [wrapped |-> <<[variant |-> "SlackMessage",
                                 meta |-> [create EXCEPT !.Type = "message"],
                                 Data |-> evt]>>,
                  err |-> m.err]
         [] k = "reaction_added"
              -> [wrapped |-> <<wrapReaction(meta, evt.reaction, TRUE, item, env).wrapped>>,
                  err |-> m.err]
         [] k = "reaction_removed"
              -> [wrapped |-> <<wrapReaction(meta, evt.reaction, FALSE, item, env).wrapped>>,
                  err |-> m.err]
         [] k = "user_typing"
              -> [wrapped |-> <<wrapTyping(meta)>>, err |-> m.err]
         [] k \in {"channel_marked", "im_marked", "group_marked"}
              -> [wrapped |-> <<wrapReadReceipt(meta)>>, err |-> m.err]
         [] k \in {"channel_joined", "group_joined"}
              -> [wrapped |-> <<wrapMemberChange(create, meta.Sender, "join", "")>>,
                  err |-> m.err]
         [] k \in {"channel_left", "group_left", "member_left_channel"}
              -> [wrapped |-> <<wrapMemberChange(meta, meta.Sender, "leave", "join")>>,
                  err |-> m.err]
         [] k = "member_joined_channel"
              -> [wrapped |-> <<wrapMemberChange(meta, meta.Sender, "join", "")>>,
                  err |-> m.err]
         [] k = "channel_update"
              -> IF env.fetchErr
                 THEN [wrapped |-> NilPtr, err |-> "failed to get chat info"]
                 ELSE [wrapped |-> <<[variant |-> "SlackChatInfoChange",
                                      meta |-> [create EXCEPT !.Type = "chat_info_change"],
                                      Change |-> [ChatInfo |-> evt.chan]]>>,
                       err |-> m.err]
         [] OTHER -> [wrapped |-> NilPtr, err |-> ""]

(***************************************************************************)
(* Session lifecycle.                                                      *)
(***************************************************************************)
\* Mutant: the stream's disconnect is counted also when there is no stream.
Disconnect_CallAlways ==
    /\ RTM' = Nil
    /\ rtmConn' = IF RTM # Nil THEN "killed" ELSE rtmConn
    /\ disconnectCalls' = disconnectCalls + 1
    /\ Client' = Nil

\* Mutant: the stream handle is dropped, the client handle is kept.
Disconnect_KeepClient ==
    /\ RTM' = Nil
    /\ rtmConn' = IF RTM # Nil THEN "killed" ELSE rtmConn
    /\ disconnectCalls' = IF RTM # Nil THEN disconnectCalls + 1 ELSE disconnectCalls
    /\ Client' = Client

\* Disconnect: rtm.Disconnect() when there is a stream (its error is only
\* logged), then both handles are dropped.
Disconnect ==
    /\ RTM' = Nil
    /\ rtmConn' = IF RTM # Nil THEN "killed" ELSE rtmConn
    /\ disconnectCalls' = IF RTM # Nil THEN disconnectCalls + 1 ELSE disconnectCalls
    /\ Client' = Nil

\* Mutant: the cookie token is left in the account record.
invalidateSession_KeepCookie(state, saveOk) ==
    /\ Extra' = [Extra EXCEPT !.token = ""]
    /\ dbExtra' = IF saveOk THEN Extra' ELSE dbExtra
    /\ Disconnect
    /\ statuses' = Append(statuses, state)

\* invalidateSession: clear both secrets, Save (a failure is only logged),
\* Disconnect, send the status.
invalidateSession(state, saveOk) ==
    /\ Extra' = [Extra EXCEPT !.token = "", !.cookie_token = ""]
    /\ dbExtra' = IF saveOk THEN Extra' ELSE dbExtra
    /\ Disconnect
    /\ statuses' = Append(statuses, state)

\* The session LoadUserLogin builds from the account record md:
\* logged out only when the record holds no string under "token".
LoadedClient(md) == IF md.token = Absent THEN Nil ELSE md.token

NoConsumers == [c \in 1..MaxConnects |-> [pc |-> "off", ev |-> NilPtr]]
NoSyncs == [t \in 1..MaxConnects |-> [pc |-> "off", remaining |-> <<>>]]

\* No goroutine of the session is between two steps or has input left.
Quiescent ==
    /\ stream = <<>>
    /\ \A c \in DOMAIN consumers : consumers[c].pc \in {"off", "recv"}
    /\ \A t \in DOMAIN syncs : syncs[t].pc \in {"off", "done"}

\* LoadUserLogin builds a new SlackClient for the login and makes it
\* login.Client. fromDB: the framework read the account record from the
\* database. getErr: UnlockedGetPortalByID failed, login.Client is not set.
\* The framework loads a login whose previous client was disconnected; the
\* goroutines of that client stay blocked on its dead stream.
LoadUserLogin(fromDB, getErr) ==
    /\ ~panicked
    /\ loads < MaxLoads
    /\ Client = Nil /\ RTM = Nil
    /\ Quiescent
    /\ loads' = loads + 1
    /\ LET md == IF fromDB THEN dbExtra ELSE Extra IN
       IF getErr
       THEN UNCHANGED <<sessVars, streamVars, syncVars>>
       ELSE /\ Extra' = md
            /\ Client' = LoadedClient(md)
            /\ RTM' = IF LoadedClient(md) = Nil THEN Nil ELSE "rtm"
            /\ rtmConn' = IF LoadedClient(md) = Nil THEN rtmConn ELSE "new"
            /\ BootResp' = FALSE
            /\ consumers' = NoConsumers
            /\ syncs' = NoSyncs
            /\ UNCHANGED <<dbExtra, disconnectCalls, teamPortal, stream, arrived, hlog,
                           portals, convList, loopVarShared>>
    /\ UNCHANGED <<outVars, taskVars, connects, lastConnect, panicked, mx>>

\* The error code Connect reports for a revoked boot error:
\* "slack-" followed by the error with "_" replaced by "-".
BootErrorCode(err) ==
    CASE err = "invalid_auth" -> "slack-invalid-auth"
      [] err = "user_removed_from_team" -> "slack-user-removed-from-team"
      [] err = "timeout" -> "slack-timeout"
      [] OTHER -> "slack-error"

RevokedErrors == {"user_removed_from_team", "invalid_auth"}
BootOutcomes == {"ok", "timeout"} \cup RevokedErrors

\* A free slot of a goroutine table.
FreeSlot(tab) == CHOOSE i \in DOMAIN tab : tab[i].pc = "off" /\ \A j \in DOMAIN tab : j < i => tab[j].pc # "off"

\* syncTeamPortal: create the team room when it has none, else refresh it.
\* Returns whether it failed.
syncTeamPortalFails(createOk) == ~teamPortal /\ ~createOk

\* Mutant: the activities are started before the team room is looked at.
connect_StartFirst(createOk) ==
    /\ BootResp' = TRUE
    /\ teamPortal' = (teamPortal \/ createOk)
    /\ consumers' = [consumers EXCEPT ![FreeSlot(consumers)] = [pc |-> "start", ev |-> NilPtr]]
    /\ managers' = managers + 1
    /\ rtmConn' = "managed"
    /\ emojiSyncs' = emojiSyncs + 1
    /\ syncs' = [syncs EXCEPT ![FreeSlot(syncs)] = [pc |-> "fetch", remaining |-> <<>>]]
    /\ lastConnect' = [boot |-> "ok", createOk |-> createOk,
                       err |-> IF syncTeamPortalFails(createOk) THEN "create failed" ELSE "",
                       started |-> TRUE]

\* connect: keep the boot response, sync the team portal, then start
\* consumeEvents, RTM.ManageConnection, SyncEmojis and SyncChannels.
connect(createOk) ==
    /\ BootResp' = TRUE
    /\ teamPortal' = (teamPortal \/ createOk)
    /\ IF syncTeamPortalFails(createOk)
       THEN /\ UNCHANGED <<consumers, syncs, rtmConn, taskVars>>
            /\ lastConnect' = [boot |-> "ok", createOk |-> createOk,
                               err |-> "create failed", started |-> FALSE]
       ELSE /\ consumers' = [consumers EXCEPT ![FreeSlot(consumers)] = [pc |-> "start", ev |-> NilPtr]]
            /\ managers' = managers + 1
            /\ rtmConn' = "managed"
            /\ emojiSyncs' = emojiSyncs + 1
            /\ syncs' = [syncs EXCEPT ![FreeSlot(syncs)] = [pc |-> "fetch", remaining |-> <<>>]]
            /\ lastConnect' = [boot |-> "ok", createOk |-> createOk, err |-> "", started |-> TRUE]

\* Mutant: every boot failure is treated as transient.
ConnectFailed_AllTransient(boot, saveOk) ==
    /\ statuses' = Append(statuses, BridgeState(StateUnknownError, "slack-unknown-fetch-error"))
    /\ UNCHANGED <<Extra, dbExtra, Client, RTM, rtmConn, disconnectCalls>>
    /\ lastConnect' = [boot |-> boot, createOk |-> FALSE, err |-> boot, started |-> FALSE]

\* Connect, the boot request failed: invalidate on revoked credentials,
\* else send a transient error status; return the error.
ConnectFailed(boot, saveOk) ==
    /\ IF boot \in RevokedErrors
       THEN invalidateSession(BridgeState(StateBadCredentials, BootErrorCode(boot)), saveOk)
       ELSE /\ statuses' = Append(statuses, BridgeState(StateUnknownError, "slack-unknown-fetch-error"))
            /\ UNCHANGED <<Extra, dbExtra, Client, RTM, rtmConn, disconnectCalls>>
    /\ lastConnect' = [boot |-> boot, createOk |-> FALSE, err |-> boot, started |-> FALSE]

\* Connect. A client made with an empty token cannot boot. With no client
\* the boot request dereferences nil.
Connect(boot, createOk, saveOk) ==
    /\ ~panicked
    /\ connects < MaxConnects
    /\ connects' = connects + 1
    /\ IF Client = Nil
       THEN /\ panicked' = TRUE
            /\ UNCHANGED <<sessVars, outVars, streamVars, syncVars, taskVars, loads, lastConnect, mx>>
       ELSE /\ boot = "ok" => Client # ""
            /\ IF boot = "ok"
               THEN /\ connect(createOk)
                    /\ UNCHANGED <<Extra, dbExtra, Client, RTM, disconnectCalls, outVars>>
               ELSE /\ ConnectFailed(boot, saveOk)
                    /\ UNCHANGED <<teamPortal, BootResp, queued, consumers, syncs, taskVars>>
            /\ UNCHANGED <<stream, arrived, hlog, portals, convList, loopVarShared, loads,
                           panicked, mx>>

\* Disconnect called by the framework.
DoDisconnect ==
    /\ ~panicked
    /\ Disconnect
    /\ UNCHANGED <<Extra, dbExtra, teamPortal, BootResp, outVars, streamVars, syncVars,
                   taskVars, callVars, mx>>

(***************************************************************************)
(* The event stream and its consumers.                                     *)
(***************************************************************************)
\* RTM.ManageConnection delivers an event to IncomingEvents.
Arrive(e) ==
    /\ ~panicked
    /\ rtmConn = "managed"
    /\ arrived < MaxEvents
    /\ arrived' = arrived + 1
    /\ stream' = Append(stream, [id |-> arrived + 1, e |-> e])
    /\ UNCHANGED <<sessVars, outVars, consumers, hlog, syncVars, taskVars, callVars, mx>>

NoEnv == [dbErr |-> FALSE, fetchErr |-> FALSE, isImage |-> FALSE, emoji |-> "",
          customEmoji |-> FALSE]
NoCall == [id |-> 0, evt |-> Event("", "", "", "", ""), env |-> NoEnv, result |-> "none"]

Logged(ev, env, result) ==
    hlog' = [id |-> ev.id, evt |-> ev.e, env |-> env, result |-> result]

\* Mutant: only the team id of the connected event is compared.
Mismatch_TeamOnly(evt) == evt.team # TeamID

Mismatch(evt) == evt.team # TeamID \/ evt.user # UserID

\* Mutant: the wrapped event is queued whether or not wrapEvent failed.
HandleChatEvent_QueueAnyway(ev, env) ==
    LET w == wrapEvent(ev.e, env)
    IN IF w.wrapped = NilPtr
       THEN UNCHANGED queued /\ Logged(ev, env, "wrap_error")
       ELSE /\ queued' = Append(queued, [id |-> ev.id, evt |-> w.wrapped[1]])
            /\ Logged(ev, env, "queued")

\* fmt.Sprintf("slack-rtm-error-%d", evt.Code)
RTMErrorCode(code) ==
    CASE code = 0 -> "slack-rtm-error-0"
      [] code = 1 -> "slack-rtm-error-1"
      [] OTHER -> "slack-rtm-error-n"

\* HandleSlackEvent, a chat event: wrap it, queue it unless wrapping failed.
HandleChatEvent(ev, env) ==
    LET w == wrapEvent(ev.e, env)
    IN IF w.err # ""
       THEN UNCHANGED queued /\ Logged(ev, env, "wrap_error")
       ELSE /\ queued' = Append(queued, [id |-> ev.id, evt |-> w.wrapped[1]])
            /\ Logged(ev, env, "queued")

\* HandleSlackEvent for one received event.
HandleSlackEvent(ev, env, saveOk) ==
    LET evt == ev.e
        k == evt.kind
    IN CASE k = "connecting"
              -> /\ statuses' = Append(statuses, BridgeState(StateConnecting, ""))
                 /\ UNCHANGED <<sessVars, queued>>
                 /\ Logged(ev, env, "status")
         [] k = "connected" /\ Mismatch(evt)
              -> /\ invalidateSession(BridgeState(StateUnknownError, "slack-id-mismatch"), saveOk)
                 /\ UNCHANGED <<teamPortal, BootResp, queued>>
                 /\ Logged(ev, env, "invalidated")
         [] k = "connected" /\ ~Mismatch(evt)
              -> /\ statuses' = Append(statuses, BridgeState(StateConnected, ""))
                 /\ UNCHANGED <<sessVars, queued>>
                 /\ Logged(ev, env, "status")
         [] k = "hello"
              -> /\ UNCHANGED <<sessVars, outVars>>
                 /\ Logged(ev, env, "none")
         [] k = "invalid_auth"
              -> /\ invalidateSession(BridgeState(StateBadCredentials, "slack-invalid-auth"), saveOk)
                 /\ UNCHANGED <<teamPortal, BootResp, queued>>
                 /\ Logged(ev, env, "invalidated")
         [] k = "rtm_error"
              -> /\ statuses' = Append(statuses, BridgeState(StateUnknownError, RTMErrorCode(evt.code)))
                 /\ UNCHANGED <<sessVars, queued>>
                 /\ Logged(ev, env, "status")
         [] k \in ChatKinds
              -> /\ HandleChatEvent(ev, env)
                 /\ UNCHANGED <<sessVars, statuses>>
         [] k \in IgnoredKinds
              -> /\ UNCHANGED <<sessVars, outVars>>
                 /\ Logged(ev, env, "ignored")
         [] OTHER
              -> /\ UNCHANGED <<sessVars, outVars>>
                 /\ Logged(ev, env, "unrecognized")

\* consumeEvents starts: it ranges over s.RTM.IncomingEvents, read once.
ConsumerStart(c) ==
    /\ ~panicked
    /\ consumers[c].pc = "start"
    /\ IF RTM = Nil
       THEN panicked' = TRUE /\ UNCHANGED consumers
       ELSE consumers' = [consumers EXCEPT ![c].pc = "recv"] /\ UNCHANGED panicked
    /\ UNCHANGED <<sessVars, outVars, stream, arrived, hlog, syncVars, taskVars,
                   connects, loads, lastConnect, mx>>

\* consumeEvents receives the next event of the stream.
Receive(c) ==
    /\ ~panicked
    /\ consumers[c].pc = "recv"
    /\ stream # <<>>
    /\ consumers' = [consumers EXCEPT ![c] = [pc |-> "handle", ev |-> <<Head(stream)>>]]
    /\ stream' = Tail(stream)
    /\ UNCHANGED <<sessVars, outVars, arrived, hlog, syncVars, taskVars, callVars, mx>>

\* What the collaborators may answer while an event of this kind is handled.
Envs(evt) ==
    [dbErr : IF evt.kind \in LookupKinds \cup {"channel_update"} THEN BOOLEAN ELSE {FALSE},
     fetchErr : IF evt.kind = "channel_update" THEN BOOLEAN ELSE {FALSE},
     isImage : {FALSE}, emoji : {""}, customEmoji : {FALSE}]

Invalidates(evt) ==
    evt.kind = "invalid_auth" \/ (evt.kind = "connected" /\ Mismatch(evt))

\* consumeEvents handles the event it received and loops.
Handle(c, env, saveOk) ==
    /\ ~panicked
    /\ consumers[c].pc = "handle"
    /\ HandleSlackEvent(consumers[c].ev[1], env, saveOk)
    /\ consumers' = [consumers EXCEPT ![c] = [pc |-> "recv", ev |-> NilPtr]]
    /\ UNCHANGED <<stream, arrived, syncVars, taskVars, callVars, mx>>

(***************************************************************************)
(* Channel reconciliation.                                                 *)
(***************************************************************************)
\* A conversation of the server's list: Latest is NilPtr or
\* <<the latest message's subtype>>, LastRead a string, the list of its digits.
Conversation(id, isIM, latest, lastRead) ==
    [ID |-> id, IsIM |-> isIM, Latest |-> latest, LastRead |-> lastRead]

\* The conversation list of the session specification: a channel and a DM
\* that was never opened.
ServerChannels ==
    <<Conversation("C1", FALSE, NilPtr, <<2>>),
      Conversation("D1", TRUE, NilPtr, <<1>>)>>

AllChannels == {"C1", "C2", "D1"}

IsXoxs(token) == token = "xoxs-token"

\* A DM that is not "open" is skipped.
SkippedDM(channel) ==
    channel.IsIM /\ (channel.Latest = NilPtr \/ channel.Latest[1] = "")

\* The keys of serverInfo after the fetch loop, as positions of the list.
FetchedInfo(list) == {i \in DOMAIN list : ~SkippedDM(list[i])}

\* serverInfo[list[i].ID] is &channel, the address of the loop variable:
\* the channel of iteration i when every iteration has its own variable,
\* else whatever the one variable holds after the loop, the last channel.
PointedChannel(list, i) == IF loopVarShared THEN list[Len(list)] ELSE list[i]

\* The rooms of the login that have an MXID.
Rooms == {ch \in DOMAIN portals : portals[ch] = "room"}

\* cmp.Compare on strings: -1, 0 or 1, by the first position that differs.
CompareStrings(a, b) ==
    LET n == IF Len(a) < Len(b) THEN Len(a) ELSE Len(b)
        diff == {i \in 1..n : a[i] # b[i]}
    IN IF diff = {}
       THEN (IF Len(a) < Len(b) THEN -1 ELSE IF Len(a) > Len(b) THEN 1 ELSE 0)
       ELSE LET i == CHOOSE x \in diff : \A y \in diff : x <= y
            IN IF a[i] < b[i] THEN -1 ELSE 1

\* The orders slices.SortFunc may leave the values of serverInfo in (keys:
\* their positions in list): ascending by cmp.Compare(a.LastRead, b.LastRead).
SortedByLastRead(list, keys) ==
    {q \in [1..Cardinality(keys) -> keys] :
        /\ \A i, j \in DOMAIN q : i # j => q[i] # q[j]
        /\ \A i, j \in DOMAIN q : i < j =>
              CompareStrings(PointedChannel(list, q[i]).LastRead,
                             PointedChannel(list, q[j]).LastRead) <= 0}

\* SyncChannels up to the creation loop: fetch the conversations, drop the
\* channels whose room exists (existErr: the rooms GetExistingPortalByID
\* fails for), sort the rest.
SyncFetch(t, fetchOk, portalsOk, existErr) ==
    /\ ~panicked
    /\ syncs[t].pc = "fetch"
    /\ IF ~IsXoxs(Extra.token) /\ Client = Nil
       THEN panicked' = TRUE /\ UNCHANGED syncs
       ELSE /\ UNCHANGED panicked
            /\ LET serverInfo == IF IsXoxs(Extra.token) THEN {} ELSE FetchedInfo(convList)
                   left == {i \in serverInfo : convList[i].ID \notin (Rooms \ existErr)}
               IN IF (~IsXoxs(Extra.token) /\ ~fetchOk) \/ ~portalsOk
                  THEN syncs' = [syncs EXCEPT ![t] = [pc |-> "done", remaining |-> <<>>]]
                  ELSE \E order \in SortedByLastRead(convList, left) :
                          syncs' = [syncs EXCEPT ![t] =
                              [pc |-> IF left = {} THEN "done" ELSE "create",
                               remaining |-> [k \in DOMAIN order |->
                                                 PointedChannel(convList, order[k]).ID]]]
    /\ UNCHANGED <<sessVars, outVars, streamVars, portals, convList, loopVarShared,
                   taskVars, connects, loads, lastConnect, mx>>

\* One round of the creation loop: GetPortalByID makes the portal row,
\* CreateMatrixRoom the room; a failure is logged and the loop goes on.
SyncCreate(t, getOk, createOk) ==
    /\ ~panicked
    /\ syncs[t].pc = "create"
    /\ LET ch == Head(syncs[t].remaining)
           rest == Tail(syncs[t].remaining)
       IN /\ portals' = [portals EXCEPT ![ch] =
                 IF ~getOk THEN @
                 ELSE IF createOk THEN "room"
                 ELSE IF @ = "none" THEN "row" ELSE @]
          /\ syncs' = [syncs EXCEPT ![t] = [pc |-> IF rest = <<>> THEN "done" ELSE "create",
                                            remaining |-> rest]]
    /\ UNCHANGED <<sessVars, outVars, streamVars, convList, loopVarShared, taskVars,
                   callVars, mx>>

(***************************************************************************)
(* The session specification: one login, its stream and its goroutines.    *)
(***************************************************************************)
LoggedInRecord == [token |-> ValidToken, cookie_token |-> ValidCookie]
LoggedOutRecord == [token |-> Absent, cookie_token |-> Absent]

NoOutbound ==
    [op |-> "none", portal |-> <<>>,
     conv |-> [SendReq |-> FALSE, FileUpload |-> FALSE, FileShare |-> FALSE],
     file |-> [err |-> "", ID |-> "", Private |-> [c \in {} |-> <<>>],
               Public |-> [c \in {} |-> <<>>]],
     calls |-> <<>>, pending |-> {}, resp |-> <<>>, err |-> "", dispatched |-> FALSE,
     ts |-> ""]

\* The state LoadUserLogin leaves for an account record.
Init ==
    /\ Extra \in {LoggedInRecord, LoggedOutRecord}
    /\ dbExtra = Extra
    /\ Client = LoadedClient(Extra)
    /\ RTM = IF LoadedClient(Extra) = Nil THEN Nil ELSE "rtm"
    /\ rtmConn = "new"
    /\ disconnectCalls = 0
    /\ teamPortal = FALSE
    /\ BootResp = FALSE
    /\ statuses = <<>>
    /\ queued = <<>>
    /\ stream = <<>>
    /\ arrived = 0
    /\ consumers = NoConsumers
    /\ hlog = NoCall
    /\ portals = [ch \in AllChannels |-> "none"]
    /\ syncs = NoSyncs
    /\ convList = ServerChannels
    /\ loopVarShared \in BOOLEAN
    /\ emojiSyncs = 0
    /\ managers = 0
    /\ connects = 0
    /\ loads = 0
    /\ lastConnect = [boot |-> "none", createOk |-> FALSE, err |-> "", started |-> FALSE]
    /\ panicked = FALSE
    /\ mx = NoOutbound

Next ==
    \/ \E boot \in BootOutcomes, createOk \in (IF teamPortal THEN {TRUE} ELSE BOOLEAN), saveOk \in BOOLEAN :
          (boot \notin RevokedErrors => saveOk) /\ (boot # "ok" => createOk) /\ Connect(boot, createOk, saveOk)
    \/ DoDisconnect
    \/ \E fromDB \in BOOLEAN, getErr \in BOOLEAN : LoadUserLogin(fromDB, getErr)
    \/ \E e \in StreamEvents : Arrive(e)
    \/ \E c \in DOMAIN consumers : ConsumerStart(c)
    \/ \E c \in DOMAIN consumers : Receive(c)
    \/ \E c \in DOMAIN consumers :
          /\ consumers[c].pc = "handle"
          /\ \E env \in Envs(consumers[c].ev[1].e), saveOk \in BOOLEAN :
                (~Invalidates(consumers[c].ev[1].e) => saveOk) /\ Handle(c, env, saveOk)
    \/ \E t \in DOMAIN syncs, fetchOk \in BOOLEAN, portalsOk \in BOOLEAN,
          existErr \in SUBSET Rooms :
          SyncFetch(t, fetchOk, portalsOk, existErr)
    \/ \E t \in DOMAIN syncs, getOk \in BOOLEAN, createOk \in BOOLEAN :
          (~getOk => ~createOk) /\ SyncCreate(t, getOk, createOk)

Spec == Init /\ [][Next]_vars

(***************************************************************************)
(* The reconciliation specification: one run of SyncChannels, started by   *)
(* a successful Connect, over the lists the server may answer and the      *)
(* rooms the login may have.                                               *)
(***************************************************************************)
\* What Latest may be: no message, an ordinary message (no subtype), a
\* message with a subtype.
Latests == {NilPtr, <<"">>, <<"bot_message">>}

\* The conversation lists of the reconciliation specification.
SyncLists ==
    {<<Conversation("C1", FALSE, NilPtr, <<2>>),
       Conversation("C2", FALSE, <<"">>, <<1>>),
       Conversation("D1", TRUE, latest, <<3>>)>> : latest \in Latests}
    \cup
    {<<Conversation("D1", TRUE, latest, <<1>>),
       Conversation("C1", FALSE, NilPtr, <<2>>)>> : latest \in Latests}

\* The state a first successful Connect leaves, SyncChannels just started.
InitSync ==
    /\ Extra = LoggedInRecord
    /\ dbExtra = Extra
    /\ Client = LoadedClient(Extra)
    /\ RTM = "rtm"
    /\ rtmConn = "managed"
    /\ disconnectCalls = 0
    /\ teamPortal = TRUE
    /\ BootResp = TRUE
    /\ statuses = <<>>
    /\ queued = <<>>
    /\ stream = <<>>
    /\ arrived = 0
    /\ consumers = [NoConsumers EXCEPT ![1] = [pc |-> "start", ev |-> NilPtr]]
    /\ hlog = NoCall
    /\ portals \in [AllChannels -> {"none", "room"}]
    /\ syncs = [NoSyncs EXCEPT ![1] = [pc |-> "fetch", remaining |-> <<>>]]
    /\ convList \in SyncLists
    /\ loopVarShared \in BOOLEAN
    /\ emojiSyncs = 1
    /\ managers = 1
    /\ connects = 1
    /\ loads = 0
    /\ lastConnect = [boot |-> "ok", createOk |-> TRUE, err |-> "", started |-> TRUE]
    /\ panicked = FALSE
    /\ mx = NoOutbound

NextSync ==
    \/ \E t \in DOMAIN syncs, fetchOk \in BOOLEAN, portalsOk \in BOOLEAN,
          existErr \in SUBSET Rooms :
          SyncFetch(t, fetchOk, portalsOk, existErr)
    \/ \E t \in DOMAIN syncs, getOk \in BOOLEAN, createOk \in BOOLEAN :
          (~getOk => ~createOk) /\ SyncCreate(t, getOk, createOk)

SpecSync == InitSync /\ [][NextSync]_vars

(***************************************************************************)
(* The translation specification: a connected session whose consumer       *)
(* reads chat events of every translated kind, and the bridge calling      *)
(* back into the events it was given.                                      *)
(***************************************************************************)
\* The message subtypes SlackMessage.GetType names, in the order of its
\* cases.
EditSubTypes == {"message_changed"}
RemoveSubTypes == {"message_deleted"}
InfoChangeSubTypes == {"channel_topic", "channel_purpose", "channel_name",
                       "group_topic", "group_purpose", "group_name"}
UnknownSubTypes == {"message_replied", "group_join", "group_leave",
                    "channel_join", "channel_leave"}

\* A type that reads the Type field set by wrapEvent, not the subtype.
GetType_MetaType(s) == s.meta.Type

\* SlackMessage.GetType: the kind of a message event, by its subtype.
GetType(s) ==
    CASE s.Data.subtype \in EditSubTypes -> "edit"
      [] s.Data.subtype \in RemoveSubTypes -> "message_remove"
      [] s.Data.subtype \in InfoChangeSubTypes -> "chat_info_change"
      [] s.Data.subtype \in UnknownSubTypes -> "unknown"
      [] OTHER -> "message"

\* The bridge reads the kind of the queued event i.
Typed(i) == "type" \in DOMAIN queued[i]
ReadType(i) ==
    /\ ~panicked
    /\ i \in DOMAIN queued
    /\ ~Typed(i)
    /\ queued[i].evt.variant = "SlackMessage"
    /\ queued' = [queued EXCEPT ![i] =
                     [id |-> @.id, evt |-> @.evt, type |-> GetType(@.evt)]]
    /\ UNCHANGED <<sessVars, statuses, streamVars, syncVars, taskVars, callVars, mx>>

\* SlackMessage.ConvertEdit, called by the bridge on a queued event whose
\* kind is an edit: panic("implement me").
ConvertEdit(i) ==
    /\ ~panicked
    /\ i \in DOMAIN queued
    /\ Typed(i)
    /\ queued[i].type = "edit"
    /\ queued' = [queued EXCEPT ![i] =
                     [id |-> @.id, evt |-> @.evt, type |-> @.type,
                      converted |-> "panic: implement me"]]
    /\ panicked' = TRUE
    /\ UNCHANGED <<sessVars, statuses, streamVars, syncVars, taskVars, connects, loads,
                   lastConnect, mx>>

\* A reaction to the message 100.1 of channel c, a membership event, a
\* message event with a subtype.
ReactionEvent(kind, c, reaction) ==
    [Event(kind, c, "", "U2", "102.1") EXCEPT !.reaction = reaction, !.itemTs = "100.1"]
MessageEvent(c, subtype) ==
    [Event("message", c, "", "U2", "100.1") EXCEPT !.subtype = subtype]

MembershipKinds == {"channel_joined", "channel_left", "group_joined", "group_left",
                    "member_joined_channel", "member_left_channel"}
SubTypes == EditSubTypes \cup RemoveSubTypes \cup InfoChangeSubTypes \cup UnknownSubTypes
            \cup {"", "bot_message"}

TranslatedEvents ==
    {ReactionEvent(k, c, "party") : k \in {"reaction_added", "reaction_removed"}, c \in Channels}
    \cup {Event(k, c, "", "U2", "103.1") : k \in MembershipKinds, c \in Channels}
    \cup {MessageEvent(c, st) : c \in Channels, st \in SubTypes}

\* What the collaborators may answer while a translated event is handled:
\* GetEmoji gives an image reference for a custom emoji, else the emoji.
TranslateEnvs(evt) ==
    {env \in [dbErr : IF evt.kind \in LookupKinds THEN BOOLEAN ELSE {FALSE},
              fetchErr : {FALSE},
              isImage : IF evt.reaction # "" THEN BOOLEAN ELSE {FALSE},
              emoji : IF evt.reaction # "" THEN {"mxc://emoji/party", "U+1F389"} ELSE {""},
              customEmoji : IF evt.reaction # "" THEN BOOLEAN ELSE {FALSE}] :
        evt.reaction # "" => (env.isImage <=> env.emoji = "mxc://emoji/party")}

\* The state a first successful Connect leaves once the consumer waits for
\* events; the channel has a room or is unknown.
InitTranslate ==
    /\ Extra = LoggedInRecord
    /\ dbExtra = Extra
    /\ Client = LoadedClient(Extra)
    /\ RTM = "rtm"
    /\ rtmConn = "managed"
    /\ disconnectCalls = 0
    /\ teamPortal = TRUE
    /\ BootResp = TRUE
    /\ statuses = <<>>
    /\ queued = <<>>
    /\ stream = <<>>
    /\ arrived = 0
    /\ consumers = [NoConsumers EXCEPT ![1] = [pc |-> "recv", ev |-> NilPtr]]
    /\ hlog = NoCall
    /\ portals \in {[ch \in AllChannels |-> "none"],
                    [ch \in AllChannels |-> IF ch = "C1" THEN "room" ELSE "none"]}
    /\ syncs = [NoSyncs EXCEPT ![1] = [pc |-> "done", remaining |-> <<>>]]
    /\ convList = ServerChannels
    /\ loopVarShared = FALSE
    /\ emojiSyncs = 1
    /\ managers = 1
    /\ connects = 1
    /\ loads = 0
    /\ lastConnect = [boot |-> "ok", createOk |-> TRUE, err |-> "", started |-> TRUE]
    /\ panicked = FALSE
    /\ mx = NoOutbound

NextTranslate ==
    \/ \E e \in TranslatedEvents : Arrive(e)
    \/ \E c \in DOMAIN consumers : Receive(c)
    \/ \E c \in DOMAIN consumers :
          /\ consumers[c].pc = "handle"
          /\ \E env \in TranslateEnvs(consumers[c].ev[1].e) : Handle(c, env, TRUE)
    \/ \E i \in DOMAIN queued : ReadType(i)
    \/ \E i \in DOMAIN queued : ConvertEdit(i)

SpecTranslate == InitTranslate /\ [][NextTranslate]_vars

(***************************************************************************)
(* The lifecycle specification: a connected session whose consumer reads   *)
(* the lifecycle events of the stream and a chat event, and the framework  *)
(* disconnecting it at any time.                                           *)
(***************************************************************************)
LifecycleKinds == {"connecting", "connected", "hello", "invalid_auth", "rtm_error"}

SessionEvents ==
    {Event(k, "", "", "", "") : k \in {"connecting", "hello", "invalid_auth"}}
    \cup {[Event("rtm_error", "", "", "", "") EXCEPT !.code = code] : code \in {0, 1}}
    \cup {Event("connected", "", t, u, "") : t \in Teams, u \in Users}
    \cup {Event("message", c, "", "U2", "100.1") : c \in Channels}

NextSession ==
    \/ DoDisconnect
    \/ \E e \in SessionEvents : Arrive(e)
    \/ \E c \in DOMAIN consumers : Receive(c)
    \/ \E c \in DOMAIN consumers :
          /\ consumers[c].pc = "handle"
          /\ \E env \in Envs(consumers[c].ev[1].e), saveOk \in BOOLEAN :
                (~Invalidates(consumers[c].ev[1].e) => saveOk) /\ Handle(c, env, saveOk)

SpecSession == InitTranslate /\ [][NextSession]_vars

(***************************************************************************)
(* The connection specification: the framework loading, connecting and     *)
(* disconnecting a login, nothing read from the stream.                    *)
(***************************************************************************)
NextConnect ==
    \/ \E boot \in BootOutcomes, createOk \in (IF teamPortal THEN {TRUE} ELSE BOOLEAN),
          saveOk \in BOOLEAN :
          (boot \notin RevokedErrors => saveOk) /\ (boot # "ok" => createOk)
          /\ Connect(boot, createOk, saveOk)
    \/ DoDisconnect
    \/ \E fromDB \in BOOLEAN, getErr \in BOOLEAN : LoadUserLogin(fromDB, getErr)

SpecConnect == Init /\ [][NextConnect]_vars

(***************************************************************************)
(* Outbound command dispatcher.                                            *)
(***************************************************************************)
\* A map with no key.
EmptyMap == [c \in {} |-> <<>>]
MapOf(key, value) == [c \in {key} |-> value]

\* What file.Shares.Private or file.Shares.Public may hold after an upload:
\* nothing, an empty list for the channel, a record without or with a
\* timestamp, a record for another channel only.
ShareMaps(channelID) ==
    {EmptyMap,
     MapOf(channelID, <<>>),
     MapOf(channelID, <<[Ts |-> ""]>>),
     MapOf(channelID, <<[Ts |-> "172.1"]>>),
     MapOf("C9", <<[Ts |-> "999.9"]>>)}

\* The converted message: which of SendReq, FileUpload, FileShare are set.
Convs == [SendReq : BOOLEAN, FileUpload : BOOLEAN, FileShare : BOOLEAN]

\* What the remote service answers to the one call sendToSlack makes.
PostAnswers == {[ts |-> "171.1", err |-> ""], [ts |-> "", err |-> ""],
                [ts |-> "", err |-> "post failed"]}
UploadAnswers(channelID) ==
    {[err |-> "upload failed", ID |-> "", Private |-> EmptyMap, Public |-> EmptyMap]}
    \cup [err : {""}, ID : {"F1"}, Private : ShareMaps(channelID), Public : ShareMaps(channelID)]
ShareAnswers == {[ts |-> "173.1", err |-> ""], [ts |-> "", err |-> ""],
                 [ts |-> "", err |-> "share failed"]}

\* The share record sendToSlack reads the timestamp from (the zero record
\* when there is none): Private first, Public only when Private has no record.
ShareInfoOf(file, channelID) ==
    IF channelID \in DOMAIN file.Private /\ Len(file.Private[channelID]) > 0
    THEN file.Private[channelID][1]
    ELSE IF channelID \in DOMAIN file.Public /\ Len(file.Public[channelID]) > 0
    THEN file.Public[channelID][1]
    ELSE [Ts |-> ""]

\* The transaction id of a pending upload.
PendingTxn(user, fileID) == <<user, ":", fileID>>

\* Mutant: the file upload is tried before the post request.
sendToSlack_UploadFirst(channelID, conv, hasMsg, post, upload, share) ==
    IF conv.FileUpload
    THEN IF upload.err # ""
         THEN [calls |-> <<"UploadFileV2">>, ts |-> "", err |-> upload.err, pending |-> {}]
         ELSE IF ShareInfoOf(upload, channelID).Ts # ""
         THEN [calls |-> <<"UploadFileV2">>, ts |-> ShareInfoOf(upload, channelID).Ts,
               err |-> "", pending |-> {}]
         ELSE [calls |-> <<"UploadFileV2">>, ts |-> "", err |-> "",
               pending |-> IF hasMsg THEN {PendingTxn(UserID, upload.ID)} ELSE {}]
    ELSE IF conv.SendReq
    THEN [calls |-> <<"PostMessage">>, ts |-> post.ts, err |-> post.err, pending |-> {}]
    ELSE IF conv.FileShare
    THEN IF share.err # ""
         THEN [calls |-> <<"ShareFile">>, ts |-> "", err |-> share.err, pending |-> {}]
         ELSE [calls |-> <<"ShareFile">>, ts |-> share.ts, err |-> "", pending |-> {}]
    ELSE [calls |-> <<>>, ts |-> "", err |-> "no message or attachment to send",
          pending |-> {}]

\* Mutant: an upload without a share record yet is an error.
sendToSlack_NoTimestampFails(channelID, conv, hasMsg, post, upload, share) ==
    IF conv.SendReq
    THEN [calls |-> <<"PostMessage">>, ts |-> post.ts, err |-> post.err, pending |-> {}]
    ELSE IF conv.FileUpload
    THEN IF upload.err # ""
         THEN [calls |-> <<"UploadFileV2">>, ts |-> "", err |-> upload.err, pending |-> {}]
         ELSE IF ShareInfoOf(upload, channelID).Ts # ""
         THEN [calls |-> <<"UploadFileV2">>, ts |-> ShareInfoOf(upload, channelID).Ts,
               err |-> "", pending |-> {}]
         ELSE [calls |-> <<"UploadFileV2">>, ts |-> "", err |-> "no share record",
               pending |-> {}]
    ELSE IF conv.FileShare
    THEN IF share.err # ""
         THEN [calls |-> <<"ShareFile">>, ts |-> "", err |-> share.err, pending |-> {}]
         ELSE [calls |-> <<"ShareFile">>, ts |-> share.ts, err |-> "", pending |-> {}]
    ELSE [calls |-> <<>>, ts |-> "", err |-> "no message or attachment to send",
          pending |-> {}]

\* sendToSlack returns (timestamp, err); calls are the remote calls it made,
\* pending the transactions it registered on msg (hasMsg: msg is not nil).
sendToSlack(channelID, conv, hasMsg, post, upload, share) ==
    IF conv.SendReq
    THEN [calls |-> <<"PostMessage">>, ts |-> post.ts, err |-> post.err, pending |-> {}]
    ELSE IF conv.FileUpload
    THEN IF upload.err # ""
         THEN [calls |-> <<"UploadFileV2">>, ts |-> "", err |-> upload.err, pending |-> {}]
         ELSE IF ShareInfoOf(upload, channelID).Ts # ""
         THEN [calls |-> <<"UploadFileV2">>, ts |-> ShareInfoOf(upload, channelID).Ts,
               err |-> "", pending |-> {}]
         ELSE [calls |-> <<"UploadFileV2">>, ts |-> "", err |-> "",
               pending |-> IF hasMsg THEN {PendingTxn(UserID, upload.ID)} ELSE {}]
    ELSE IF conv.FileShare
    THEN IF share.err # ""
         THEN [calls |-> <<"ShareFile">>, ts |-> "", err |-> share.err, pending |-> {}]
         ELSE [calls |-> <<"ShareFile">>, ts |-> share.ts, err |-> "", pending |-> {}]
    ELSE [calls |-> <<>>, ts |-> "", err |-> "no message or attachment to send",
          pending |-> {}]

\* The portal ids a Matrix event may carry: a channel portal, the team portal.
PortalIDs == {MakePortalID(TeamID, "C1"), MakeTeamPortalID(TeamID)}

NoFile == [err |-> "", ID |-> "", Private |-> EmptyMap, Public |-> EmptyMap]
NoAnswer == [ts |-> "", err |-> ""]
NoConv == [SendReq |-> FALSE, FileUpload |-> FALSE, FileShare |-> FALSE]

\* The record of an outbound call: what it was given, the remote calls it
\* made, what it returned (resp is NilPtr or <<response>>).
Outbound(op, portal, conv, file, calls, pending, resp, err) ==
    [op |-> op, portal |-> portal, conv |-> conv, file |-> file, calls |-> calls,
     pending |-> pending, resp |-> resp, err |-> err, dispatched |-> FALSE, ts |-> ""]

\* The same, of a call that reached sendToSlack, which returned (ts, err).
Dispatched(op, portal, conv, file, sent, resp) ==
    [op |-> op, portal |-> portal, conv |-> conv, file |-> file, calls |-> sent.calls,
     pending |-> sent.pending, resp |-> resp, err |-> sent.err, dispatched |-> TRUE,
     ts |-> sent.ts]

\* Mutant: the id stored for the sent message has its channel and its
\* timestamp in each other's place.
HandleMatrixMessage_SwappedID(portal, convErr, conv, post, upload, share) ==
    /\ ~panicked
    /\ LET channelID == ParsePortalID(portal)[2]
           sent == sendToSlack(channelID, conv, TRUE, post, upload, share)
           file == IF sent.calls = <<"UploadFileV2">> THEN upload ELSE NoFile
       IN mx' =
            IF Client = Nil
            THEN Outbound("message", portal, NoConv, NoFile, <<>>, {}, NilPtr, "not logged in")
            ELSE IF channelID = ""
            THEN Outbound("message", portal, NoConv, NoFile, <<>>, {}, NilPtr, "invalid channel ID")
            ELSE IF convErr
            THEN Outbound("message", portal, NoConv, NoFile, <<>>, {}, NilPtr, "convert failed")
            ELSE IF sent.err # ""
            THEN Dispatched("message", portal, conv, file, sent, NilPtr)
            ELSE IF sent.ts = ""
            THEN Dispatched("message", portal, conv, file, sent,
                            <<[Pending |-> TRUE, DB |-> NilPtr]>>)
            ELSE Dispatched("message", portal, conv, file, sent,
                            <<[Pending |-> FALSE,
                               DB |-> <<[ID |-> MakeMessageID(TeamID, sent.ts, channelID),
                                         SenderID |-> MakeUserID(TeamID, UserID),
                                         Timestamp |-> sent.ts]>>]>>)
    /\ UNCHANGED <<sessVars, outVars, streamVars, syncVars, taskVars, callVars>>

\* HandleMatrixMessage. convErr: MsgConv.ToSlack failed.
HandleMatrixMessage(portal, convErr, conv, post, upload, share) ==
    /\ ~panicked
    /\ LET channelID == ParsePortalID(portal)[2]
           sent == sendToSlack(channelID, conv, TRUE, post, upload, share)
           file == IF sent.calls = <<"UploadFileV2">> THEN upload ELSE NoFile
       IN mx' =
            IF Client = Nil
            THEN Outbound("message", portal, NoConv, NoFile, <<>>, {}, NilPtr, "not logged in")
            ELSE IF channelID = ""
            THEN Outbound("message", portal, NoConv, NoFile, <<>>, {}, NilPtr, "invalid channel ID")
            ELSE IF convErr
            THEN Outbound("message", portal, NoConv, NoFile, <<>>, {}, NilPtr, "convert failed")
            ELSE IF sent.err # ""
            THEN Dispatched("message", portal, conv, file, sent, NilPtr)
            ELSE IF sent.ts = ""
            THEN Dispatched("message", portal, conv, file, sent,
                            <<[Pending |-> TRUE, DB |-> NilPtr]>>)
            ELSE Dispatched("message", portal, conv, file, sent,
                            <<[Pending |-> FALSE,
                               DB |-> <<[ID |-> MakeMessageID(TeamID, channelID, sent.ts),
                                         SenderID |-> MakeUserID(TeamID, UserID),
                                         Timestamp |-> sent.ts]>>]>>)
    /\ UNCHANGED <<sessVars, outVars, streamVars, syncVars, taskVars, callVars>>

\* HandleMatrixEdit: the same dispatch, with no message to register a
\* pending transaction on; only the error is returned.
HandleMatrixEdit(portal, convErr, conv, post, upload, share) ==
    /\ ~panicked
    /\ LET channelID == ParsePortalID(portal)[2]
           sent == sendToSlack(channelID, conv, FALSE, post, upload, share)
           file == IF sent.calls = <<"UploadFileV2">> THEN upload ELSE NoFile
       IN mx' =
            IF Client = Nil
            THEN Outbound("edit", portal, NoConv, NoFile, <<>>, {}, NilPtr, "not logged in")
            ELSE IF channelID = ""
            THEN Outbound("edit", portal, NoConv, NoFile, <<>>, {}, NilPtr, "invalid channel ID")
            ELSE IF convErr
            THEN Outbound("edit", portal, NoConv, NoFile, <<>>, {}, NilPtr, "convert failed")
            ELSE Dispatched("edit", portal, conv, file, sent, NilPtr)
    /\ UNCHANGED <<sessVars, outVars, streamVars, syncVars, taskVars, callVars>>

\* ParseMessageID gives (team, channel, timestamp, ok): the parts of an id
\* built by MakeMessageID, ok false for anything else.
ParseMessageID(id) ==
    IF Len(id) = 3
    THEN [team |-> id[1], channel |-> id[2], ts |-> id[3], ok |-> TRUE]
    ELSE [team |-> "", channel |-> "", ts |-> "", ok |-> FALSE]

\* The message ids a Matrix event may target: one of a message, one that
\* does not decode.
MessageIDs == {MakeMessageID(TeamID, "C1", "171.1"), <<"garbage">>}

\* What a single remote call may answer: success or an error.
CallErrors == {"", "remote error"}

\* The record of an outbound command other than a message or an edit:
\* target is the message id it was given (<<>> when it takes none), real the
\* session's IsRealUser at the call, calls the remote calls and stream
\* messages it issued, err the error it returned ("" for none).
Command(op, portal, target, real, calls, err) ==
    [op |-> op, portal |-> portal, conv |-> NoConv, file |-> NoFile, calls |-> calls,
     pending |-> {}, resp |-> NilPtr, err |-> err, dispatched |-> FALSE, ts |-> "",
     target |-> target, real |-> real]

\* The command returned: nothing but its record changes.
Returns(rec) ==
    /\ mx' = rec
    /\ UNCHANGED <<sessVars, outVars, streamVars, syncVars, taskVars, callVars>>

\* The command dereferenced the nil Client: the panic ends the process.
Panics(rec) ==
    /\ mx' = rec
    /\ panicked' = TRUE
    /\ UNCHANGED <<sessVars, outVars, streamVars, syncVars, taskVars, connects, loads,
                   lastConnect>>

\* A removal handler that does not look at what ParseMessageID says.
HandleMatrixMessageRemove_NoIDCheck(target, real, callErr) ==
    /\ ~panicked
    /\ Returns(IF Client = Nil
               THEN Command("remove", <<>>, target, real, <<>>, "not logged in")
               ELSE Command("remove", <<>>, target, real, <<"DeleteMessage">>, callErr))

\* HandleMatrixMessageRemove. callErr: what DeleteMessageContext answers.
HandleMatrixMessageRemove(target, real, callErr) ==
    /\ ~panicked
    /\ Returns(IF Client = Nil
               THEN Command("remove", <<>>, target, real, <<>>, "not logged in")
               ELSE IF ~ParseMessageID(target).ok
               THEN Command("remove", <<>>, target, real, <<>>, "invalid message ID")
               ELSE Command("remove", <<>>, target, real, <<"DeleteMessage">>, callErr))

\* HandleMatrixReaction. callErr: what AddReactionContext answers.
HandleMatrixReaction(target, real, callErr) ==
    /\ ~panicked
    /\ Returns(IF Client = Nil
               THEN Command("reaction", <<>>, target, real, <<>>, "not logged in")
               ELSE IF ~ParseMessageID(target).ok
               THEN Command("reaction", <<>>, target, real, <<>>, "invalid message ID")
               ELSE Command("reaction", <<>>, target, real, <<"AddReaction">>, callErr))

\* HandleMatrixReactionRemove. callErr: what RemoveReactionContext answers;
\* the error whose text is "reaction" is swallowed.
HandleMatrixReactionRemove(target, real, callErr) ==
    /\ ~panicked
    /\ Returns(IF Client = Nil
               THEN Command("reaction_remove", <<>>, target, real, <<>>, "not logged in")
               ELSE IF ~ParseMessageID(target).ok
               THEN Command("reaction_remove", <<>>, target, real, <<>>, "invalid message ID")
               ELSE Command("reaction_remove", <<>>, target, real, <<"RemoveReaction">>,
                            IF callErr # "" /\ callErr # "reaction" THEN callErr ELSE ""))

\* HandleMatrixReadReceipt. exact: msg.ExactMessage (NilPtr or <<id>>);
\* dbErr: GetLastPartAtOrBeforeTime failed; last: the message it found
\* (NilPtr or <<id>>); callErr: what MarkConversationContext answers.
HandleMatrixReadReceipt(portal, real, exact, dbErr, last, callErr) ==
    /\ ~panicked
    /\ LET target == IF exact # NilPtr THEN exact[1]
                     ELSE IF ~dbErr /\ last # NilPtr THEN last[1] ELSE <<>>
       IN Returns(
            IF Client = Nil
            THEN Command("read_receipt", portal, <<>>, real, <<>>, "not logged in")
            ELSE IF ~real
            THEN Command("read_receipt", portal, <<>>, real, <<>>, "")
            ELSE IF exact # NilPtr
            THEN IF ~ParseMessageID(exact[1]).ok
                 THEN Command("read_receipt", portal, target, real, <<>>, "invalid message ID")
                 ELSE Command("read_receipt", portal, target, real, <<"MarkConversation">>,
                              callErr)
            ELSE IF dbErr
            THEN Command("read_receipt", portal, target, real, <<>>, "database error")
            ELSE IF last # NilPtr
            THEN IF ~ParseMessageID(last[1]).ok
                 THEN Command("read_receipt", portal, target, real, <<>>, "invalid message ID")
                 ELSE Command("read_receipt", portal, target, real, <<"MarkConversation">>,
                              callErr)
            ELSE Command("read_receipt", portal, target, real, <<>>, ""))

\* A typing handler that does not look at IsRealUser.
HandleMatrixTyping_NoRealGate(portal, real) ==
    /\ ~panicked
    /\ Returns(IF Client = Nil
               THEN Command("typing", portal, <<>>, real, <<>>, "not logged in")
               ELSE IF ParsePortalID(portal)[2] = ""
               THEN Command("typing", portal, <<>>, real, <<>>, "")
               ELSE Command("typing", portal, <<>>, real, <<"RTM.SendMessage">>, ""))

\* HandleMatrixTyping: the typing message goes out on the stream (RTM), and
\* nothing it does can fail.
HandleMatrixTyping(portal, real) ==
    /\ ~panicked
    /\ Returns(IF Client = Nil
               THEN Command("typing", portal, <<>>, real, <<>>, "not logged in")
               ELSE IF ~real
               THEN Command("typing", portal, <<>>, real, <<>>, "")
               ELSE IF ParsePortalID(portal)[2] = ""
               THEN Command("typing", portal, <<>>, real, <<>>, "")
               ELSE Command("typing", portal, <<>>, real, <<"RTM.SendMessage">>, ""))

\* HandleMatrixRoomName: decodes the portal id, then calls
\* RenameConversationContext on Client, whatever Client and IsRealUser are.
HandleMatrixRoomName(portal, real, callErr) ==
    /\ ~panicked
    /\ IF ParsePortalID(portal)[2] = ""
       THEN Returns(Command("room_name", portal, <<>>, real, <<>>, "invalid channel ID"))
       ELSE IF Client = Nil
       THEN Panics(Command("room_name", portal, <<>>, real, <<>>, "nil pointer dereference"))
       ELSE Returns(Command("room_name", portal, <<>>, real, <<"RenameConversation">>, callErr))

\* HandleMatrixRoomTopic: the same with SetTopicOfConversationContext.
HandleMatrixRoomTopic(portal, real, callErr) ==
    /\ ~panicked
    /\ IF ParsePortalID(portal)[2] = ""
       THEN Returns(Command("room_topic", portal, <<>>, real, <<>>, "invalid channel ID"))
       ELSE IF Client = Nil
       THEN Panics(Command("room_topic", portal, <<>>, real, <<>>, "nil pointer dereference"))
       ELSE Returns(Command("room_topic", portal, <<>>, real, <<"SetTopicOfConversation">>,
                            callErr))

(***************************************************************************)
(* The interleaving specification: Disconnect, invalidateSession and two   *)
(* outbound commands statement by statement, each running in a goroutine   *)
(* of its own with no lock between them. An outbound command that has      *)
(* passed its checks is recorded with the field stage.                     *)
(***************************************************************************)
\* Disconnect up to `s.RTM = nil`, when there is a stream.
DisconnectStream ==
    /\ ~panicked
    /\ RTM # Nil
    /\ RTM' = Nil
    /\ rtmConn' = "killed"
    /\ disconnectCalls' = disconnectCalls + 1
    /\ UNCHANGED <<Extra, dbExtra, Client, teamPortal, BootResp, outVars, streamVars,
                   syncVars, taskVars, callVars, mx>>

\* Disconnect from there on, or all of it when there is no stream:
\* `s.Client = nil`.
DisconnectClient ==
    /\ ~panicked
    /\ RTM = Nil
    /\ Client # Nil
    /\ Client' = Nil
    /\ UNCHANGED <<Extra, dbExtra, RTM, rtmConn, disconnectCalls, teamPortal, BootResp,
                   outVars, streamVars, syncVars, taskVars, callVars, mx>>

\* The event the consumer c received and is handling.
HeldEvent(c) == consumers[c].ev[1].e

\* The consumer c is at this statement of invalidateSession.
AtInvalidate(c, stage) == consumers[c].pc = stage /\ Invalidates(HeldEvent(c))
GoTo(c, stage) == consumers' = [consumers EXCEPT ![c].pc = stage]

\* invalidateSession up to Save: both secrets are cleared and saved.
InvalidateClear(c, saveOk) ==
    /\ ~panicked
    /\ AtInvalidate(c, "handle")
    /\ Extra' = [Extra EXCEPT !.token = "", !.cookie_token = ""]
    /\ dbExtra' = IF saveOk THEN Extra' ELSE dbExtra
    /\ GoTo(c, "invalidate: stream")
    /\ UNCHANGED <<Client, RTM, rtmConn, disconnectCalls, teamPortal, BootResp, outVars,
                   stream, arrived, hlog, syncVars, taskVars, callVars, mx>>

\* Its Disconnect, first half.
InvalidateStream(c) ==
    /\ ~panicked
    /\ AtInvalidate(c, "invalidate: stream")
    /\ RTM' = Nil
    /\ rtmConn' = IF RTM # Nil THEN "killed" ELSE rtmConn
    /\ disconnectCalls' = IF RTM # Nil THEN disconnectCalls + 1 ELSE disconnectCalls
    /\ GoTo(c, "invalidate: client")
    /\ UNCHANGED <<Extra, dbExtra, Client, teamPortal, BootResp, outVars,
                   stream, arrived, hlog, syncVars, taskVars, callVars, mx>>

\* Mutant: the second half of Disconnect leaves the client handle.
InvalidateClient_KeepClient(c) ==
    /\ ~panicked
    /\ AtInvalidate(c, "invalidate: client")
    /\ GoTo(c, "invalidate: status")
    /\ UNCHANGED <<sessVars, outVars, stream, arrived, hlog, syncVars, taskVars,
                   callVars, mx>>

\* Its Disconnect, second half.
InvalidateClient(c) ==
    /\ ~panicked
    /\ AtInvalidate(c, "invalidate: client")
    /\ Client' = Nil
    /\ GoTo(c, "invalidate: status")
    /\ UNCHANGED <<Extra, dbExtra, RTM, rtmConn, disconnectCalls, teamPortal, BootResp,
                   outVars, stream, arrived, hlog, syncVars, taskVars, callVars, mx>>

\* The status the caller of invalidateSession passes (handleslack.go:55-58,
\* 65-68).
InvalidationState(evt) ==
    IF evt.kind = "invalid_auth"
    THEN BridgeState(StateBadCredentials, "slack-invalid-auth")
    ELSE BridgeState(StateUnknownError, "slack-id-mismatch")

\* BridgeState.Send, and HandleSlackEvent returns to consumeEvents.
InvalidateSend(c) ==
    /\ ~panicked
    /\ AtInvalidate(c, "invalidate: status")
    /\ statuses' = Append(statuses, InvalidationState(HeldEvent(c)))
    /\ Logged(consumers[c].ev[1], NoEnv, "invalidated")
    /\ consumers' = [consumers EXCEPT ![c] = [pc |-> "recv", ev |-> NilPtr]]
    /\ UNCHANGED <<sessVars, queued, stream, arrived, syncVars, taskVars, callVars, mx>>

\* An outbound command that passed its checks and has its call to make.
InFlight(op, portal, real) ==
    [op |-> op, portal |-> portal, conv |-> NoConv, file |-> NoFile, calls |-> <<>>,
     pending |-> {}, resp |-> NilPtr, err |-> "", dispatched |-> FALSE, ts |-> "",
     target |-> <<>>, real |-> real, stage |-> "checked"]
Checked(op) == mx.op = op /\ "stage" \in DOMAIN mx

\* HandleMatrixTyping up to the decoding of the portal id.
TypingCheck(portal, real) ==
    /\ ~panicked
    /\ ~("stage" \in DOMAIN mx)
    /\ Returns(IF Client = Nil
               THEN Command("typing", portal, <<>>, real, <<>>, "not logged in")
               ELSE IF ~real
               THEN Command("typing", portal, <<>>, real, <<>>, "")
               ELSE IF ParsePortalID(portal)[2] = ""
               THEN Command("typing", portal, <<>>, real, <<>>, "")
               ELSE InFlight("typing", portal, real))

\* s.RTM.SendMessage(s.RTM.NewTypingMessage(channelID)): RTM is read now.
TypingSend ==
    /\ ~panicked
    /\ Checked("typing")
    /\ IF RTM = Nil
       THEN Panics(Command("typing", mx.portal, <<>>, mx.real, <<>>,
                           "nil pointer dereference"))
       ELSE Returns(Command("typing", mx.portal, <<>>, mx.real, <<"RTM.SendMessage">>, ""))

\* HandleMatrixMessage up to the conversion of a message to post.
MessageCheck(portal, real) ==
    /\ ~panicked
    /\ ~("stage" \in DOMAIN mx)
    /\ Returns(IF Client = Nil
               THEN Outbound("message", portal, NoConv, NoFile, <<>>, {}, NilPtr,
                             "not logged in")
               ELSE IF ParsePortalID(portal)[2] = ""
               THEN Outbound("message", portal, NoConv, NoFile, <<>>, {}, NilPtr,
                             "invalid channel ID")
               ELSE InFlight("message", portal, real))

\* sendToSlack: s.Client.PostMessageContext, Client is read now.
MessageSend(post) ==
    /\ ~panicked
    /\ Checked("message")
    /\ LET conv == [SendReq |-> TRUE, FileUpload |-> FALSE, FileShare |-> FALSE]
           channelID == ParsePortalID(mx.portal)[2]
           sent == sendToSlack(channelID, conv, TRUE, post, NoFile, NoAnswer)
       IN IF Client = Nil
          THEN Panics(Outbound("message", mx.portal, conv, NoFile, <<>>, {}, NilPtr,
                               "nil pointer dereference"))
          ELSE Returns(Dispatched("message", mx.portal, conv, NoFile, sent,
                         IF sent.err # "" THEN NilPtr
                         ELSE IF sent.ts = "" THEN <<[Pending |-> TRUE, DB |-> NilPtr]>>
                         ELSE <<[Pending |-> FALSE,
                                 DB |-> <<[ID |-> MakeMessageID(TeamID, channelID, sent.ts),
                                           SenderID |-> MakeUserID(TeamID, UserID),
                                           Timestamp |-> sent.ts]>>]>>))

RaceEvents ==
    {Event("invalid_auth", "", "", "", ""), Event("connected", "", "T2", UserID, "")}

NextRace ==
    \/ DisconnectStream
    \/ DisconnectClient
    \/ \E e \in RaceEvents : Arrive(e)
    \/ \E c \in DOMAIN consumers : Receive(c)
    \/ \E c \in DOMAIN consumers, saveOk \in BOOLEAN : InvalidateClear(c, saveOk)
    \/ \E c \in DOMAIN consumers : InvalidateStream(c)
    \/ \E c \in DOMAIN consumers : InvalidateClient(c)
    \/ \E c \in DOMAIN consumers : InvalidateSend(c)
    \/ \E portal \in PortalIDs, real \in BOOLEAN : TypingCheck(portal, real)
    \/ TypingSend
    \/ \E portal \in PortalIDs, real \in BOOLEAN : MessageCheck(portal, real)
    \/ \E post \in PostAnswers : MessageSend(post)

SpecRace == InitTranslate /\ [][NextRace]_vars

(***************************************************************************)
(* The outbound specification: the commands of the local network, on a     *)
(* session that may be disconnected.                                       *)
(***************************************************************************)
\* The answers of the remote service that a dispatch of conv can read.
PostAnswersFor(conv) == IF conv.SendReq THEN PostAnswers ELSE {NoAnswer}
UploadAnswersFor(conv) ==
    IF ~conv.SendReq /\ conv.FileUpload THEN UploadAnswers("C1") ELSE {NoFile}
ShareAnswersFor(conv) ==
    IF ~conv.SendReq /\ ~conv.FileUpload /\ conv.FileShare THEN ShareAnswers ELSE {NoAnswer}

NextMatrix ==
    \/ DoDisconnect
    \/ \E portal \in PortalIDs, convErr \in BOOLEAN, conv \in Convs :
          \E post \in PostAnswersFor(conv), upload \in UploadAnswersFor(conv),
             share \in ShareAnswersFor(conv) :
             HandleMatrixMessage(portal, convErr, conv, post, upload, share)
    \/ \E portal \in PortalIDs, convErr \in BOOLEAN, conv \in Convs :
          \E post \in PostAnswersFor(conv), upload \in UploadAnswersFor(conv),
             share \in ShareAnswersFor(conv) :
             HandleMatrixEdit(portal, convErr, conv, post, upload, share)
    \/ \E target \in MessageIDs, real \in BOOLEAN, callErr \in CallErrors :
          HandleMatrixMessageRemove(target, real, callErr)
    \/ \E target \in MessageIDs, real \in BOOLEAN, callErr \in CallErrors :
          HandleMatrixReaction(target, real, callErr)
    \/ \E target \in MessageIDs, real \in BOOLEAN, callErr \in CallErrors \cup {"reaction"} :
          HandleMatrixReactionRemove(target, real, callErr)
    \/ \E portal \in PortalIDs, real \in BOOLEAN, exact \in {NilPtr} \cup {<<id>> : id \in MessageIDs},
          dbErr \in BOOLEAN, last \in {NilPtr} \cup {<<id>> : id \in MessageIDs},
          callErr \in CallErrors :
          HandleMatrixReadReceipt(portal, real, exact, dbErr, last, callErr)
    \/ \E portal \in PortalIDs, real \in BOOLEAN : HandleMatrixTyping(portal, real)
    \/ \E portal \in PortalIDs, real \in BOOLEAN, callErr \in CallErrors :
          HandleMatrixRoomName(portal, real, callErr)
    \/ \E portal \in PortalIDs, real \in BOOLEAN, callErr \in CallErrors :
          HandleMatrixRoomTopic(portal, real, callErr)

SpecMatrix == Init /\ [][NextMatrix]_vars

(***************************************************************************)
(* The reaction specification: PreHandleMatrixReaction, which resolves the *)
(* key of a reaction before the reaction is handled. A key is the list of  *)
(* its characters; the emoji directory and the shortcode table are outside *)
(* the sources, so the lookup's answer is an input.                        *)
(***************************************************************************)
CustomKeys == {<<"mxc", ":", "party">>, <<"mxc", ":", "gone">>}
UnicodeKeys == {<<"thumbs-up glyph">>, <<"heart glyph">>, <<"unassigned glyph">>}
ReactionKeys == CustomKeys \cup UnicodeKeys

ContainsRune(key, r) == \E i \in DOMAIN key : key[i] = r

\* emoji.GetShortcode: the shortcode of a glyph, "" when it has none.
GetShortcode(key) ==
    CASE key = <<"thumbs-up glyph">> -> "+1"
      [] key = <<"heart glyph">> -> "heart"
      [] OTHER -> ""

\* Emoji.GetByMXC: the record found, no record, or no record and an error.
EmojiFound(id) == [dbEmoji |-> <<[EmojiID |-> id]>>, err |-> ""]
EmojiNotFound == [dbEmoji |-> NilPtr, err |-> ""]
EmojiLookupFailed == [dbEmoji |-> NilPtr, err |-> "db"]
EmojiNotAsked == [dbEmoji |-> NilPtr, err |-> "not asked"]
Lookups == {EmojiFound("party"), EmojiFound("blob"), EmojiNotFound, EmojiLookupFailed}
LookupsFor(key) == IF ContainsRune(key, ":") THEN Lookups ELSE {EmojiNotAsked}

\* What PreHandleMatrixReaction was called with and what came of it.
PreReaction(key, lookup, resp, err) ==
    [op |-> "prereaction", key |-> key, lookup |-> lookup, resp |-> resp, err |-> err]

PreResponse(emojiID) ==
    <<[SenderID |-> MakeUserID(TeamID, UserID), EmojiID |-> emojiID]>>

\* PreHandleMatrixReaction: `emojiID = dbEmoji.EmojiID` is evaluated
\* whatever the lookup returned.
PreHandleMatrixReaction(key, lookup) ==
    /\ ~panicked
    /\ IF ContainsRune(key, ":")
       THEN IF lookup.dbEmoji = NilPtr
            THEN Panics(PreReaction(key, lookup, NilPtr, "nil pointer dereference"))
            ELSE IF lookup.err # ""
            THEN Returns(PreReaction(key, lookup, NilPtr, "failed to get emoji from db"))
            ELSE Returns(PreReaction(key, lookup, PreResponse(lookup.dbEmoji[1].EmojiID), ""))
       ELSE IF GetShortcode(key) = ""
            THEN Returns(PreReaction(key, lookup, NilPtr, "unknown emoji"))
            ELSE Returns(PreReaction(key, lookup, PreResponse(GetShortcode(key)), ""))

NextReaction ==
    \/ DoDisconnect
    \/ \E key \in ReactionKeys : \E lookup \in LookupsFor(key) :
          PreHandleMatrixReaction(key, lookup)
    \/ \E target \in MessageIDs, real \in BOOLEAN, callErr \in CallErrors :
          HandleMatrixReaction(target, real, callErr)
    \/ \E target \in MessageIDs, real \in BOOLEAN, callErr \in CallErrors \cup {"reaction"} :
          HandleMatrixReactionRemove(target, real, callErr)

SpecReaction == Init /\ [][NextReaction]_vars

(***************************************************************************)
(* Properties of the session specification.                                *)
(***************************************************************************)
\* The last status sent, and the statuses sent before it.
LastStatus(sts) == sts[Len(sts)]
OneStatusAdded == Len(statuses') = Len(statuses) + 1 /\ SubSeq(statuses', 1, Len(statuses)) = statuses

\* Consumer c finishes handling the event it holds.
Handled(c) == consumers[c].pc = "handle" /\ consumers'[c].pc = "recv"

SessionInvalidated ==
    /\ Extra'.token = ""
    /\ Extra'.cookie_token = ""
    /\ Client' = Nil
    /\ RTM' = Nil

\* C1: handling a connected event whose team id or user id differs from the
\* session's own invalidates the session (token and cookie cleared, Client
\* and RTM absent), sends exactly one status, the identity-mismatch error,
\* which is not a connected status, and queues no event.
C1_MismatchInvalidates ==
    [][\A c \in DOMAIN consumers :
          (Handled(c) /\ HeldEvent(c).kind = "connected" /\ Mismatch(HeldEvent(c)))
          => /\ SessionInvalidated
             /\ OneStatusAdded
             /\ LastStatus(statuses') = BridgeState(StateUnknownError, "slack-id-mismatch")
             /\ LastStatus(statuses').StateEvent # StateConnected
             /\ queued' = queued]_vars

C1_Witness ==
    /\ hlog.evt.kind = "connected"
    /\ Mismatch(hlog.evt)
    /\ hlog.result = "invalidated"
    /\ Client = Nil /\ RTM = Nil
    /\ Extra.token = "" /\ Extra.cookie_token = ""
    /\ statuses # <<>>
    /\ LastStatus(statuses).Error = "slack-id-mismatch"

\* C2, as stated: an identity mismatch and an invalid-auth event both
\* invalidate the session and the status reported is the terminal
\* bad-credentials status.
C2_BothReportBadCredentials ==
    [][\A c \in DOMAIN consumers :
          (Handled(c) /\ Invalidates(HeldEvent(c)))
          => /\ SessionInvalidated
             /\ OneStatusAdded
             /\ LastStatus(statuses').StateEvent = StateBadCredentials]_vars

\* C2, amended: an identity mismatch and an invalid-auth event both
\* invalidate the session (credentials cleared, both handles dropped) and
\* one status is reported: the terminal bad-credentials status for an
\* invalid-auth event, the unknown-error status with the identity-mismatch
\* code for an identity mismatch.
C2_InvalidationStatusByTrigger ==
    [][\A c \in DOMAIN consumers :
          (Handled(c) /\ Invalidates(HeldEvent(c)))
          => /\ SessionInvalidated
             /\ OneStatusAdded
             /\ LastStatus(statuses') =
                   IF HeldEvent(c).kind = "invalid_auth"
                   THEN BridgeState(StateBadCredentials, "slack-invalid-auth")
                   ELSE BridgeState(StateUnknownError, "slack-id-mismatch")]_vars

C2_Witness ==
    /\ hlog.evt.kind = "invalid_auth"
    /\ hlog.result = "invalidated"
    /\ Client = Nil /\ RTM = Nil
    /\ Extra.token = "" /\ Extra.cookie_token = ""
    /\ statuses # <<>>
    /\ LastStatus(statuses) = BridgeState(StateBadCredentials, "slack-invalid-auth")

\* C3, as stated: once the account record is invalidated (its token
\* cleared) no operation, reloading the login from the record included,
\* yields a session with a client handle.
C3_StaysLoggedOut ==
    [][Extra.token = "" => Client' = Nil]_vars

\* The outcome of the last Connect call, whose boot request failed.
RevokedOutcome(lc) ==
    /\ lc.err = lc.boot
    /\ SessionInvalidated
    /\ OneStatusAdded
    /\ LastStatus(statuses') = BridgeState(StateBadCredentials, BootErrorCode(lc.boot))
TransientOutcome(lc) ==
    /\ lc.err = lc.boot
    /\ OneStatusAdded
    /\ LastStatus(statuses') = BridgeState(StateUnknownError, "slack-unknown-fetch-error")
    /\ Extra' = Extra /\ dbExtra' = dbExtra
    /\ consumers' = consumers /\ syncs' = syncs
    /\ managers' = managers /\ emojiSyncs' = emojiSyncs
    /\ Client' = Client /\ RTM' = RTM /\ rtmConn' = rtmConn
    /\ ~lc.started

\* C4: when the boot request of Connect fails because the account was
\* removed from the team or its authentication is invalid, the session is
\* invalidated, its secrets cleared, and the bad-credentials status sent;
\* any other boot failure sends one transient error status, leaves the
\* secrets unchanged, starts no background activity and leaves the session
\* as it was; the error is returned in both cases.
C4_ConnectBootFailure ==
    [][(connects' = connects + 1 /\ Client # Nil /\ lastConnect'.boot # "ok")
       => IF lastConnect'.boot \in RevokedErrors
          THEN RevokedOutcome(lastConnect')
          ELSE TransientOutcome(lastConnect')]_vars

C4_Witness ==
    /\ connects = 2
    /\ lastConnect.boot \in RevokedErrors
    /\ lastConnect.err = lastConnect.boot
    /\ Len(statuses) = 2
    /\ statuses[1] = BridgeState(StateUnknownError, "slack-unknown-fetch-error")
    /\ statuses[2].StateEvent = StateBadCredentials
    /\ Client = Nil
    /\ Extra.token = "" /\ Extra.cookie_token = ""
    /\ consumers = NoConsumers

\* C5, as stated: whatever Connect calls and events happen, at most one
\* event is being handled at a time and the queued events are in the order
\* the events arrived.
C5_SerialInOrder ==
    /\ Cardinality({c \in DOMAIN consumers : consumers[c].pc = "handle"}) <= 1
    /\ \A i, j \in DOMAIN queued : i < j => queued[i].id < queued[j].id

\* The channels of the conversation list.
ListedChannels == {convList[i].ID : i \in DOMAIN convList}

\* C6, as stated: every chat event read from the stream for a channel of the
\* conversation list is queued in the end, also when it arrived before
\* reconciliation made the room: once reconciliation has made the room, the
\* stream is drained and every goroutine is idle, the last chat event
\* handled without a collaborator failure is in the queue.
C6_ChatEventQueuedInTheEnd ==
    (/\ Quiescent
     /\ hlog.evt.kind \in ChatKinds
     /\ hlog.evt.chan \in ListedChannels
     /\ portals[hlog.evt.chan] = "room"
     /\ ~hlog.env.dbErr /\ ~hlog.env.fetchErr)
    => \E i \in DOMAIN queued : queued[i].id = hlog.id

\* C7: when wrapEvent returns an error for a chat event, no event is
\* queued, the client and stream handles and the credentials are unchanged,
\* and the consumer goes back to receiving the next event.
C7_WrapErrorSkipsEvent ==
    [][\A c \in DOMAIN consumers :
          (/\ Handled(c)
           /\ HeldEvent(c).kind \in ChatKinds
           /\ wrapEvent(HeldEvent(c), hlog'.env).err # "")
          => /\ queued' = queued
             /\ Client' = Client /\ RTM' = RTM /\ rtmConn' = rtmConn
             /\ Extra' = Extra /\ dbExtra' = dbExtra
             /\ statuses' = statuses
             /\ ~panicked'
             /\ consumers'[c] = [pc |-> "recv", ev |-> NilPtr]]_vars

C7_Witness ==
    /\ connects = 1
    /\ hlog.result = "wrap_error"
    /\ hlog.evt.kind \in ChatKinds
    /\ queued = <<>>
    /\ Client # Nil /\ RTM # Nil
    /\ \E c \in DOMAIN consumers :
          consumers[c].pc = "handle" /\ consumers[c].ev[1].id = hlog.id + 1

\* The portal lookup of makeEventMeta fails or finds no portal.
LookupFails(channelID, dbErr) ==
    LET found == FindPortalReceiver(MakePortalID(TeamID, channelID), dbErr)
    IN found.err \/ IsEmpty(found.key)

\* C8: makeEventMeta fails when it is given no channel descriptor and the
\* portal lookup errors or returns an empty key, and then fabricates no
\* portal key; given a descriptor it derives the key from the descriptor
\* whatever the lookup would answer; an event whose metadata failed is
\* never queued.
C8_MetaNeverFabricatesKey ==
    [][/\ \A ch \in Channels, dbErr \in BOOLEAN :
             /\ LookupFails(ch, dbErr)
                => LET r == makeEventMeta(ch, NilPtr, UserID, "1.0", dbErr)
                   IN r.err # "" /\ IsEmpty(r.meta.PortalKey)
             /\ LET r == makeEventMeta(ch, <<[ID |-> ch]>>, UserID, "1.0", dbErr)
                IN r.err = "" /\ r.meta.PortalKey = makePortalKey([ID |-> ch])
       /\ \A c \in DOMAIN consumers :
             (/\ Handled(c)
              /\ HeldEvent(c).kind \in LookupKinds \cup {"channel_update"}
              /\ LookupFails(HeldEvent(c).chan, hlog'.env.dbErr))
             => queued' = queued
       /\ \A c \in DOMAIN consumers :
             (Handled(c) /\ HeldEvent(c).kind \in DescriptorKinds)
             => /\ Len(queued') = Len(queued) + 1
                /\ queued'[Len(queued')].evt.meta.PortalKey =
                      makePortalKey([ID |-> HeldEvent(c).chan])]_vars

C8_Witness ==
    /\ Len(queued) = 1
    /\ queued[1].evt.meta.PortalKey = makePortalKey([ID |-> "C1"])
    /\ portals["C1"] = "none"
    /\ hlog.evt.kind \in LookupKinds
    /\ hlog.evt.chan = "C1"
    /\ ~hlog.env.dbErr
    /\ hlog.result = "wrap_error"

(***************************************************************************)
(* Properties of the outbound specification.                               *)
(***************************************************************************)
\* C9: sendToSlack performs one kind of remote action, chosen by priority:
\* the post request when there is one, else the file upload, else the file
\* share; with none of the three it performs no remote action and returns
\* the no-payload error.
C9_OneRemoteActionByPriority ==
    mx.dispatched
    => /\ Len(mx.calls) <= 1
       /\ mx.conv.SendReq => mx.calls = <<"PostMessage">>
       /\ (~mx.conv.SendReq /\ mx.conv.FileUpload) => mx.calls = <<"UploadFileV2">>
       /\ (~mx.conv.SendReq /\ ~mx.conv.FileUpload /\ mx.conv.FileShare)
             => mx.calls = <<"ShareFile">>
       /\ mx.conv = NoConv
             => /\ mx.calls = <<>>
                /\ mx.err = "no message or attachment to send"
                /\ mx.resp = NilPtr

C9_Witness ==
    /\ mx.dispatched
    /\ mx.conv = [SendReq |-> TRUE, FileUpload |-> TRUE, FileShare |-> TRUE]
    /\ mx.calls = <<"PostMessage">>
    /\ mx.err = ""

\* No record with a timestamp for the channel in a share set.
NoTimestamp(shares, channelID) ==
    channelID \in DOMAIN shares
    => \A i \in DOMAIN shares[channelID] : shares[channelID][i].Ts = ""

\* C10: when the upload succeeds and neither the private nor the public
\* share set holds a record with a timestamp for the target channel,
\* sendToSlack returns an empty timestamp and no error after registering a
\* pending transaction keyed by the session's user id and the file id, and
\* HandleMatrixMessage returns a response marked Pending with no stored
\* message.
C10_UploadWithoutTimestampIsPending ==
    (/\ mx.op = "message"
     /\ mx.dispatched
     /\ mx.calls = <<"UploadFileV2">>
     /\ mx.file.err = ""
     /\ NoTimestamp(mx.file.Private, ParsePortalID(mx.portal)[2])
     /\ NoTimestamp(mx.file.Public, ParsePortalID(mx.portal)[2]))
    => /\ mx.ts = ""
       /\ mx.err = ""
       /\ mx.pending = {PendingTxn(UserID, mx.file.ID)}
       /\ mx.resp = <<[Pending |-> TRUE, DB |-> NilPtr]>>

C10_Witness ==
    /\ mx.op = "message"
    /\ mx.dispatched
    /\ mx.calls = <<"UploadFileV2">>
    /\ mx.file.err = ""
    /\ mx.file.Private = MapOf("C1", <<[Ts |-> ""]>>)
    /\ mx.file.Public = EmptyMap
    /\ mx.pending = {PendingTxn(UserID, "F1")}
    /\ mx.resp = <<[Pending |-> TRUE, DB |-> NilPtr]>>

(***************************************************************************)
(* Properties of the outbound commands.                                    *)
(***************************************************************************)
\* The step is an outbound command that returned or panicked.
CommandStep == mx' # mx

\* C11, as stated: every outbound command (message, edit, removal, reaction,
\* reaction removal, read receipt, typing, room name, room topic) called
\* while Client is absent returns the not-logged-in error, makes no remote
\* call and sends no stream message.
C11_AbsentClientFailsFast ==
    [][(CommandStep /\ Client = Nil)
       => /\ mx'.err = "not logged in"
          /\ mx'.calls = <<>>
          /\ ~panicked']_vars

\* C12: on a logged-in session that is not a real remote identity,
\* HandleMatrixReadReceipt and HandleMatrixTyping return success and issue
\* no remote call and no stream message; on a real identity each issues at
\* most one.
C12_PresenceSignalsGatedByRealUser ==
    [][(CommandStep /\ Client # Nil /\ mx'.op \in {"read_receipt", "typing"})
       => /\ ~mx'.real => (mx'.err = "" /\ mx'.calls = <<>>)
          /\ mx'.real => Len(mx'.calls) <= 1
          /\ ~panicked']_vars

C12_Witness ==
    /\ Client # Nil
    /\ mx.op = "typing"
    /\ ~mx.real
    /\ ParsePortalID(mx.portal)[2] # ""
    /\ mx.err = ""
    /\ mx.calls = <<>>

\* C13, as stated: on a session that is not a real remote identity,
\* HandleMatrixRoomName and HandleMatrixRoomTopic do nothing: they issue no
\* rename and no set-topic call.
C13_RoomChangesGatedByRealUser ==
    [][(CommandStep /\ mx'.op \in {"room_name", "room_topic"} /\ ~mx'.real)
       => mx'.calls = <<>>]_vars

\* The command addresses its target by the portal id, or by a message id.
ByPortalID == {"message", "edit", "typing", "room_name", "room_topic"}
ByMessageID == {"remove", "reaction", "reaction_remove"}

\* The identifier the command rec decodes does not decode. A read receipt
\* decodes the id of the exact message, or of the last message found.
Undecodable(rec) ==
    \/ rec.op \in ByPortalID /\ ParsePortalID(rec.portal)[2] = ""
    \/ rec.op \in ByMessageID /\ ~ParseMessageID(rec.target).ok
    \/ rec.op = "read_receipt" /\ rec.target # <<>> /\ ~ParseMessageID(rec.target).ok

\* The command rec got as far as decoding: the session is logged in and,
\* for a read receipt or typing, a real identity.
Decoding(rec) == Client # Nil /\ (rec.op \in {"read_receipt", "typing"} => rec.real)

InvalidAddressing == {"invalid channel ID", "invalid message ID"}

\* C14, as stated: every outbound command whose portal id or message id
\* does not decode returns an invalid-addressing error and issues no remote
\* call and no stream message.
C14_UndecodableIsAnError ==
    [][(CommandStep /\ Decoding(mx') /\ Undecodable(mx'))
       => /\ mx'.err \in InvalidAddressing
          /\ mx'.calls = <<>>]_vars

\* C14, amended: an outbound command whose portal id or message id does not
\* decode issues no remote call and no stream message, and returns an
\* invalid-addressing error, except HandleMatrixTyping, which returns
\* success.
C14_UndecodableIssuesNothing ==
    [][(CommandStep /\ Decoding(mx') /\ Undecodable(mx'))
       => /\ mx'.calls = <<>>
          /\ mx'.err = IF mx'.op = "typing" THEN ""
                       ELSE IF mx'.op \in ByPortalID THEN "invalid channel ID"
                       ELSE "invalid message ID"]_vars

C14_Witness ==
    /\ Client # Nil
    /\ mx.op = "remove"
    /\ ~ParseMessageID(mx.target).ok
    /\ mx.err = "invalid message ID"
    /\ mx.calls = <<>>

(***************************************************************************)
(* Properties of the channel reconciliation.                               *)
(***************************************************************************)
\* Sync task t passes from the fetch to the creation loop (or to its end).
FetchStep(t) == syncs[t].pc = "fetch" /\ syncs'[t].pc \in {"create", "done"}

\* The conversation of the list with this id.
ListedChannel(id) == CHOOSE c \in {convList[i] : i \in DOMAIN convList} : c.ID = id

\* The fetched candidates that have no room at the time of the sync.
Roomless == {convList[i].ID : i \in FetchedInfo(convList)} \ Rooms

\* C15, as stated, for a build in which every iteration of the fetch loop
\* has its own loop variable: when both fetches succeed, the creation loop
\* of SyncChannels gets each fetched candidate without a room exactly once,
\* no channel that has a room, in ascending order of last-read time; each
\* round of the loop attempts the first channel left and goes on to the
\* next whether the attempt failed or not.
C15_CreatesExactlyTheRoomless ==
    [][~loopVarShared =>
       \A t \in DOMAIN syncs :
          /\ FetchStep(t) =>
                LET rem == syncs'[t].remaining
                IN \/ rem = <<>>
                   \/ /\ {rem[k] : k \in DOMAIN rem} = Roomless
                      /\ Len(rem) = Cardinality(Roomless)
                      /\ \A j, k \in DOMAIN rem : j < k =>
                            CompareStrings(ListedChannel(rem[j]).LastRead,
                                           ListedChannel(rem[k]).LastRead) <= 0
          /\ (syncs[t].pc = "create" /\ syncs'[t] # syncs[t]) =>
                syncs'[t].remaining = Tail(syncs[t].remaining)]_vars

\* C16, as stated, for a build in which every iteration of the fetch loop
\* has its own loop variable: SyncChannels drops a fetched conversation if
\* and only if it is a DM with no latest message; a DM whose latest message
\* is an ordinary one, and every conversation that is not a DM, is kept
\* (seen on the conversations without a room, when the creation loop gets
\* any channel at all).
C16_DropsOnlyUnopenedDMs ==
    [][~loopVarShared =>
       \A t \in DOMAIN syncs :
          (FetchStep(t) /\ syncs'[t].remaining # <<>>) =>
             \A i \in DOMAIN convList :
                convList[i].ID \notin Rooms =>
                   ((\E k \in DOMAIN syncs'[t].remaining : syncs'[t].remaining[k] = convList[i].ID)
                    <=> ~(convList[i].IsIM /\ convList[i].Latest = NilPtr))]_vars

(***************************************************************************)
(* Properties of the translation.                                          *)
(***************************************************************************)
\* Consumer c finishes handling the event it holds and queues its
\* translation, the last event of the queue.
Translated(c) == Handled(c) /\ Len(queued') = Len(queued) + 1
LastQueued(q) == q[Len(q)].evt

\* C17: a reaction event is translated into a reaction whose emoji id is
\* the raw reaction name and whose target id is made of the session's team
\* and the item's channel and timestamp. For a custom emoji (GetEmoji gives
\* an image reference) the image reference is attached to the extra
\* content, and the emoji is the shortcode when CustomEmojiReactions is off,
\* the image reference when it is on. For any other emoji the emoji is the
\* one looked up and no image reference is attached.
C17_ReactionTranslation ==
    [][\A c \in DOMAIN consumers :
          (Translated(c) /\ HeldEvent(c).kind \in {"reaction_added", "reaction_removed"})
          => LET evt == HeldEvent(c)
                 env == hlog'.env
                 r == LastQueued(queued')
             IN /\ r.variant = "SlackReaction"
                /\ r.meta.Type = IF evt.kind = "reaction_added" THEN "reaction"
                                 ELSE "reaction_remove"
                /\ r.EmojiID = evt.reaction
                /\ r.TargetID = MakeMessageID(TeamID, evt.chan, evt.itemTs)
                /\ r.Meta.shortcode = Shortcode(evt.reaction)
                /\ r.Meta.reaction.name = evt.reaction
                /\ IF env.isImage
                   THEN /\ r.Meta.reaction.mxc = env.emoji
                        /\ r.Emoji = IF env.customEmoji THEN env.emoji
                                     ELSE Shortcode(evt.reaction)
                   ELSE /\ "mxc" \notin DOMAIN r.Meta.reaction
                        /\ r.Emoji = env.emoji]_vars

C17_Witness ==
    /\ hlog.evt.kind = "reaction_added"
    /\ hlog.result = "queued"
    /\ hlog.env.isImage
    /\ ~hlog.env.customEmoji
    /\ queued # <<>>
    /\ LastQueued(queued).variant = "SlackReaction"
    /\ LastQueued(queued).Emoji = Shortcode("party")
    /\ LastQueued(queued).Meta.reaction.mxc = "mxc://emoji/party"
    /\ LastQueued(queued).TargetID = MakeMessageID(TeamID, "C1", "100.1")

\* C18: each of the six membership events is translated into a
\* chat-info-change event that holds exactly one membership element, for
\* the sender of the event, a join for the three join events and a leave
\* after a join for the three leave events; it may create the room exactly
\* when the event is channel_joined or group_joined.
C18_MembershipTranslation ==
    [][\A c \in DOMAIN consumers :
          (Translated(c) /\ HeldEvent(c).kind \in MembershipKinds)
          => LET evt == HeldEvent(c)
                 r == LastQueued(queued')
                 joins == evt.kind \in {"channel_joined", "group_joined",
                                        "member_joined_channel"}
             IN /\ r.variant = "SlackChatInfoChange"
                /\ r.meta.Type = "chat_info_change"
                /\ Len(r.Change.MemberChanges) = 1
                /\ r.Change.MemberChanges[1].EventSender = r.meta.Sender
                /\ r.Change.MemberChanges[1].Membership = IF joins THEN "join" ELSE "leave"
                /\ r.Change.MemberChanges[1].PrevMembership = IF joins THEN "" ELSE "join"
                /\ r.meta.CreatePortal <=> evt.kind \in {"channel_joined", "group_joined"}]_vars

C18_Witness ==
    /\ hlog.evt.kind = "group_joined"
    /\ hlog.result = "queued"
    /\ queued # <<>>
    /\ LastQueued(queued).variant = "SlackChatInfoChange"
    /\ LastQueued(queued).meta.CreatePortal
    /\ Len(LastQueued(queued).Change.MemberChanges) = 1
    /\ LastQueued(queued).Change.MemberChanges[1].Membership = "join"

\* C19: the kind of a message event is a function of its subtype alone:
\* message_changed is an edit, message_deleted a removal, the six topic,
\* purpose and name subtypes a chat-info change, the thread-reply marker and
\* the four synthetic join and leave subtypes unknown, every other subtype
\* and the empty one a message.
C19_MessageKindBySubtype ==
    \A i \in DOMAIN queued :
       Typed(i) =>
          LET st == queued[i].evt.Data.subtype
          IN queued[i].type =
                IF st = "message_changed" THEN "edit"
                ELSE IF st = "message_deleted" THEN "message_remove"
                ELSE IF st \in {"channel_topic", "channel_purpose", "channel_name",
                                "group_topic", "group_purpose", "group_name"}
                THEN "chat_info_change"
                ELSE IF st \in {"message_replied", "group_join", "group_leave",
                                "channel_join", "channel_leave"}
                THEN "unknown"
                ELSE "message"

C19_Witness ==
    \E i \in DOMAIN queued :
       /\ Typed(i)
       /\ queued[i].evt.Data.subtype = "group_purpose"
       /\ queued[i].type = "chat_info_change"
       /\ queued[i].evt.meta.Type = "message"

\* C20, as stated: a message-changed event is an edit and ConvertEdit
\* completes for it, with a stubbed edit that carries no payload.
C20_ConvertEditCompletes ==
    \A i \in DOMAIN queued :
       (Typed(i) /\ queued[i].evt.Data.subtype = "message_changed")
       => /\ queued[i].type = "edit"
          /\ "converted" \in DOMAIN queued[i] => queued[i].converted = "stub"
          /\ ~panicked

(***************************************************************************)
(* Properties of the identifiers.                                          *)
(***************************************************************************)
\* The timestamps the remote service answers with.
Timestamps == {"171.1", "172.1", "173.1"}

\* The outbound call recorded stored a message in the database.
Stored(rec) == rec.op = "message" /\ rec.resp # NilPtr /\ rec.resp[1].DB # NilPtr

C22_DisconnectTearsDownOnce ==
    [][DoDisconnect
       => /\ Client' = Nil /\ RTM' = Nil
          /\ statuses' = statuses
          /\ consumers' = consumers
          /\ stream' = stream
          /\ disconnectCalls' = IF RTM # Nil THEN disconnectCalls + 1 ELSE disconnectCalls
          /\ (Client = Nil /\ RTM = Nil) => UNCHANGED vars]_vars

\* Disconnect was called twice on a session that was not invalidated: one
\* stream call, no handle, the consumer still waiting with an event unread.
C22_Witness ==
    /\ disconnectCalls = 1
    /\ Client = Nil /\ RTM = Nil
    /\ Extra = LoggedInRecord
    /\ statuses = <<>>
    /\ consumers[1].pc = "recv"
    /\ stream # <<>>

\* C23, as stated (its safety half): once the session has ended, Client and
\* RTM both absent after a Disconnect or an invalidation, no consumer
\* handles an event of the stream and no event is queued to the bridge.
C23_NothingHandledAfterTeardown ==
    [][(Client = Nil /\ RTM = Nil)
       => /\ hlog' = hlog
          /\ queued' = queued
          /\ \A c \in DOMAIN consumers : ~Handled(c)]_vars

\* C25: handling a connecting, connected, hello, invalid-auth or
\* stream-error event queues no event. Of these only an invalid-auth event
\* and a connected event that reports another team or user touch the stored
\* credentials and the handles (they invalidate the session); a stream
\* error sends one status, an unknown-error one, and a hello sends nothing.
C25_LifecycleEventsQueueNothing ==
    [][\A c \in DOMAIN consumers :
          (Handled(c) /\ HeldEvent(c).kind \in LifecycleKinds)
          => LET evt == HeldEvent(c)
                 ends == \/ evt.kind = "invalid_auth"
                         \/ evt.kind = "connected"
                            /\ (evt.team # TeamID \/ evt.user # UserID)
             IN /\ queued' = queued
                /\ IF ends THEN SessionInvalidated
                   ELSE UNCHANGED <<Extra, dbExtra, Client, RTM, rtmConn, disconnectCalls>>
                /\ evt.kind = "rtm_error" =>
                      /\ OneStatusAdded
                      /\ LastStatus(statuses').StateEvent = StateUnknownError
                /\ evt.kind = "hello" => statuses' = statuses]_vars

C25_Witness ==
    /\ hlog.evt.kind = "rtm_error"
    /\ hlog.result = "status"
    /\ statuses = <<BridgeState(StateUnknownError, "slack-rtm-error-1")>>
    /\ queued = <<>>
    /\ Client # Nil /\ RTM # Nil
    /\ Extra = LoggedInRecord

\* The step is a call of Connect whose boot request succeeded.
Booted == connects' = connects + 1 /\ ~panicked' /\ lastConnect'.boot = "ok"

\* The activities connect starts: the consumers, the emoji syncs and the
\* channel syncs that have been started.
Started(cs, es, ss) ==
    <<Cardinality({c \in DOMAIN cs : cs[c].pc # "off"}), es,
      Cardinality({t \in DOMAIN ss : ss[t].pc # "off"})>>

\* C24: after a successful boot request the team room is reconciled first.
\* When that fails (the team portal has no room and its creation fails)
\* Connect returns the error and starts no consumer, no emoji sync and no
\* channel sync; otherwise the team portal has its room when one consumer,
\* one emoji sync and one channel sync are started; so none of them ever
\* runs without the team room.
C24_TeamRoomBeforeActivities ==
    [][/\ Booted =>
             IF ~teamPortal /\ ~lastConnect'.createOk
             THEN /\ lastConnect'.err # ""
                  /\ ~teamPortal'
                  /\ Started(consumers', emojiSyncs', syncs')
                        = Started(consumers, emojiSyncs, syncs)
             ELSE /\ lastConnect'.err = ""
                  /\ teamPortal'
                  /\ emojiSyncs' = emojiSyncs + 1
                  /\ \E c \in DOMAIN consumers :
                        consumers[c].pc = "off" /\ consumers'[c].pc = "start"
                  /\ \E t \in DOMAIN syncs :
                        syncs[t].pc = "off" /\ syncs'[t].pc = "fetch"
       /\ Started(consumers', emojiSyncs', syncs') # <<0, 0, 0>> => teamPortal']_vars

C24_Witness ==
    /\ lastConnect.boot = "ok"
    /\ ~lastConnect.createOk
    /\ lastConnect.err = "create failed"
    /\ ~lastConnect.started
    /\ ~teamPortal
    /\ BootResp
    /\ Started(consumers, emojiSyncs, syncs) = <<0, 0, 0>>

(***************************************************************************)
(* C26, C27, C29: Disconnect, invalidateSession and the outbound commands  *)
(* statement by statement, under SpecRace.                                 *)
(***************************************************************************)
\* A command that passed its checks makes its call.
CallStep(op) == Checked(op) /\ mx' # mx

\* C26, first half: in every state, the states between the two assignments
\* of Disconnect included, a present Client implies a present RTM.
C26_ClientImpliesStream == Client # Nil => RTM # Nil

\* C26: HandleMatrixTyping, which checks only Client, never sends on an
\* absent RTM stream handle, however it interleaves with Disconnect and
\* with the invalidation of the session.
C26_TypingNeverUsesAbsentStream ==
    [][CallStep("typing") => (RTM # Nil /\ ~panicked')]_vars

\* C27: an outbound command that passed its logged-in check never makes its
\* remote call through an absent Client, however Disconnect and the
\* invalidation of the session interleave between the check and the call.
C27_CallNeverThroughAbsentClient ==
    [][CallStep("message") => (Client # Nil /\ ~panicked')]_vars

\* C29: invalidateSession sends its status last, with both secrets empty and
\* Client and RTM absent; it sends exactly one status, none before that
\* step; and it gets there whether or not the account record was saved.
InvalidateStages == {"handle", "invalidate: stream", "invalidate: client", "invalidate: status"}
C29_InvalidationOrder ==
    [][\A c \in DOMAIN consumers :
          (consumers[c].pc \in InvalidateStages /\ Invalidates(HeldEvent(c))
             /\ consumers'[c] # consumers[c])
          => IF consumers'[c].pc = "recv"
             THEN /\ consumers[c].pc = "invalidate: status"
                  /\ Extra.token = "" /\ Extra.cookie_token = ""
                  /\ Client = Nil /\ RTM = Nil
                  /\ OneStatusAdded
                  /\ LastStatus(statuses') = InvalidationState(HeldEvent(c))
                  /\ UNCHANGED sessVars
             ELSE statuses' = statuses]_vars

\* An invalidation ran to its end although the record could not be saved.
C29_Witness ==
    /\ hlog.result = "invalidated"
    /\ dbExtra.token # ""
    /\ Extra.token = "" /\ Extra.cookie_token = ""
    /\ Client = Nil /\ RTM = Nil
    /\ Len(statuses) = 1

(***************************************************************************)
(* C28: a response marked Pending has a pending transaction behind it.     *)
(***************************************************************************)
\* HandleMatrixMessage returned a response marked Pending.
ReturnedPending == mx.op = "message" /\ mx.resp # NilPtr /\ mx.resp[1].Pending

\* C28: whenever HandleMatrixMessage returns a response marked Pending, a
\* pending transaction was registered for the message, whichever of the
\* three send paths (post, upload, share) produced the empty timestamp.
C28_PendingIsRegistered == ReturnedPending => mx.pending # {}

(***************************************************************************)
(* C30: PreHandleMatrixReaction, under SpecReaction.                       *)
(***************************************************************************)
\* The key of the reaction cannot be resolved.
Unresolvable(key, lookup) ==
    IF ContainsRune(key, ":") THEN lookup.err # "" \/ lookup.dbEmoji = NilPtr
    ELSE GetShortcode(key) = ""

\* C30: PreHandleMatrixReaction returns an error and no response whenever
\* the key cannot be resolved (a custom key whose lookup fails or finds no
\* record, a glyph with no shortcode), and otherwise the session's own user
\* id as sender with the resolved emoji id.
C30_UnresolvedKeyIsAnError ==
    [][(mx' # mx /\ mx'.op = "prereaction")
         => IF Unresolvable(mx'.key, mx'.lookup)
            THEN ~panicked' /\ mx'.err # "" /\ mx'.resp = NilPtr
            ELSE /\ ~panicked' /\ mx'.err = ""
                 /\ mx'.resp = <<[SenderID |-> MakeUserID(TeamID, UserID),
                                  EmojiID |-> IF ContainsRune(mx'.key, ":")
                                              THEN mx'.lookup.dbEmoji[1].EmojiID
                                              ELSE GetShortcode(mx'.key)]>>]_vars

====
